---------------------------- MODULE Spec2Model ----------------------------
(***************************************************************************)
(* Model of modules/audio_extractor/extractor.py: the AudioExtractor batch *)
(* (run, _worker_thread, pause/resume/stop) and the per-file pipeline      *)
(* extract_audio (probe, loudness detection, classification, decision,     *)
(* output path, ffmpeg invocation, size check).                            *)
(*                                                                         *)
(* Loudness values are whole dB; only their order relative to the          *)
(* thresholds -50.0, -60.0 and -80.0 is used by the code.  External tools  *)
(* (ffprobe, ffmpeg) are the environment: their outcomes are chosen        *)
(* nondeterministically at the step that calls them.                       *)
(***************************************************************************)
EXTENDS Integers, Sequences, FiniteSets, TLC

\* ------------------------------------------------------------------ bounds
MaxFiles == 2
MaxThreads == 2

\* ------------------------------------------------------- program constants
SILENCE_THRESHOLD == -50
COMPLETE_SILENCE_THRESHOLD == -80
SENTINEL_DB == -60

\* config/app_config.py AUDIO_EXTENSIONS
AUDIO_EXTENSIONS ==
  {".mp3", ".wav", ".m4a", ".wma", ".aac", ".ogg", ".amr", ".flac", ".aiff"}

\* reason strings of make_processing_decision / extract_audio (translated)
REASON_NO_AUDIO == "video has no audio"
REASON_UNKNOWN == "audio detection failed"
REASON_CHANNEL_FIX == "pseudo stereo merge channels"
REASON_UNSUPPORTED == "format unsupported"
REASON_PCM == "PCM needs transcode"
REASON_COPY == "direct stream copy"
REASON_STANDARD == "standard transcode"
REASON_SKIP == "skip existing file"

\* error messages of extract_audio (translated)
ERR_NO_STREAM == "cannot get audio stream info"
ERR_EXEC == "audio processing execution failed"
ERR_EXCEPTION == "audio extraction exception: e"

PAN_FILTER == "pan=stereo|c0=0.5*c0+0.5*c1|c1=0.5*c0+0.5*c1"

\* ------------------------------------------------------------ input domain
\* codec names ffprobe can report; PcmCodecs are those starting with "pcm_"
Codecs == {"aac", "mp3", "ac3", "flac", "opus", "pcm_s16le"}
PcmCodecs == {"pcm_s16le"}
\* loudness levels around every threshold the classifier compares with
Levels == {-90, -80, -60, -55, -50, -20}
ChannelCounts == {1, 2}

\* sizes in MiB of the audio extracted from a file: at and above the threshold
OutSizes == {500, 600}
\* stream duration in seconds
Duration == 2
\* the media an input file can hold: codec, channel count, per-channel RMS,
\* the size its extracted audio has, the stream duration, and whether the
\* transcoding runs over it print progress lines before they end
FullCatalog ==
  [codec : Codecs, channels : ChannelCounts, left : Levels, right : Levels,
   size : OutSizes, duration : {Duration}, lines : {FALSE}]
\* a small catalog for multi-file batches
BatchCatalog ==
  { [codec |-> "aac", channels |-> 2, left |-> -20, right |-> -20, size |-> 500,
     duration |-> Duration, lines |-> FALSE] }

\* ------------------------------------------------------------ pure helpers
startswith_pcm(codec) == codec \in PcmCodecs

\* f".{codec}"
Ext(codec) == "." \o codec

\* the astats report of ffmpeg for a stream: one section per channel, each
\* with its RMS line, then the Overall section
AstatsReport(m) ==
  LET ch(c, v) == << [kind |-> "channel", n |-> c, v |-> 0],
                     [kind |-> "rms", n |-> 0, v |-> v] >>
  IN  ch(1, m.left)
      \o (IF m.channels >= 2 THEN ch(2, m.right) ELSE << >>)
      \o << [kind |-> "overall", n |-> 0, v |-> 0],
            [kind |-> "rms", n |-> 0, v |-> IF m.left > m.right THEN m.left ELSE m.right] >>

\* the parsing loop of _detect_position_volumes over the report's lines
RECURSIVE ParseAstats(_, _, _, _)
ParseAstats(lines, current_channel, left_rms, right_rms) ==
  IF lines = << >> THEN << left_rms, right_rms >>
  ELSE
    LET line == Head(lines)
        chan == IF line.kind = "overall" THEN "overall"
                ELSE IF line.kind = "channel" /\ line.n = 1 THEN "left"
                ELSE IF line.kind = "channel" /\ line.n = 2 THEN "right"
                ELSE current_channel
        isrms == line.kind = "rms" /\ chan # "none"
    IN  ParseAstats(Tail(lines), chan,
                    IF isrms /\ chan = "left" THEN line.v ELSE left_rms,
                    IF isrms /\ chan = "right" THEN line.v ELSE right_rms)

\* what ffmpeg prints when it ends without statistics: no RMS line
ErrorReport == << [kind |-> "other", n |-> 0, v |-> 0] >>

\* mutant: a failed measurement reported as silence
detect_position_volumes_SilentOnFailure(m, outcome) ==
  IF outcome = "ok"
  THEN ParseAstats(AstatsReport(m), "none", SENTINEL_DB, SENTINEL_DB)
  ELSE << -90, -90 >>

\* _detect_position_volumes: outcome "ok" parses the report of the stream;
\* "norms" parses a report without any RMS line (ffmpeg ended without
\* statistics); "fail" (the subprocess cannot be run) and "timeout" raise
\* inside the try block, and the except clause returns the sentinel pair
_detect_position_volumes(m, outcome) ==
  IF outcome = "ok"
  THEN ParseAstats(AstatsReport(m), "none", SENTINEL_DB, SENTINEL_DB)
  ELSE IF outcome = "norms"
  THEN ParseAstats(ErrorReport, "none", SENTINEL_DB, SENTINEL_DB)
  ELSE << SENTINEL_DB, SENTINEL_DB >>

\* mutant: the pseudo-stereo types named after the silent channel
determine_audio_type_Swapped(left_vol, right_vol) ==
  IF left_vol = SENTINEL_DB /\ right_vol = SENTINEL_DB THEN "unknown"
  ELSE IF left_vol < COMPLETE_SILENCE_THRESHOLD /\ right_vol < COMPLETE_SILENCE_THRESHOLD
       THEN "no_audio"
  ELSE IF left_vol < SILENCE_THRESHOLD /\ right_vol >= SILENCE_THRESHOLD
       THEN "pseudo_stereo_left"
  ELSE IF right_vol < SILENCE_THRESHOLD /\ left_vol >= SILENCE_THRESHOLD
       THEN "pseudo_stereo_right"
  ELSE IF left_vol >= SILENCE_THRESHOLD /\ right_vol >= SILENCE_THRESHOLD
       THEN "true_stereo"
  ELSE "mono"

\* mutant: the sentinel test with or instead of and
determine_audio_type_SentinelOr(left_vol, right_vol) ==
  IF left_vol = SENTINEL_DB \/ right_vol = SENTINEL_DB THEN "unknown"
  ELSE IF left_vol < COMPLETE_SILENCE_THRESHOLD /\ right_vol < COMPLETE_SILENCE_THRESHOLD
       THEN "no_audio"
  ELSE IF left_vol < SILENCE_THRESHOLD /\ right_vol >= SILENCE_THRESHOLD
       THEN "pseudo_stereo_right"
  ELSE IF right_vol < SILENCE_THRESHOLD /\ left_vol >= SILENCE_THRESHOLD
       THEN "pseudo_stereo_left"
  ELSE IF left_vol >= SILENCE_THRESHOLD /\ right_vol >= SILENCE_THRESHOLD
       THEN "true_stereo"
  ELSE "mono"

\* mutant: true stereo tested with > instead of >=
determine_audio_type_StrictStereo(left_vol, right_vol) ==
  IF left_vol = SENTINEL_DB /\ right_vol = SENTINEL_DB THEN "unknown"
  ELSE IF left_vol < COMPLETE_SILENCE_THRESHOLD /\ right_vol < COMPLETE_SILENCE_THRESHOLD
       THEN "no_audio"
  ELSE IF left_vol < SILENCE_THRESHOLD /\ right_vol >= SILENCE_THRESHOLD
       THEN "pseudo_stereo_right"
  ELSE IF right_vol < SILENCE_THRESHOLD /\ left_vol >= SILENCE_THRESHOLD
       THEN "pseudo_stereo_left"
  ELSE IF left_vol > SILENCE_THRESHOLD /\ right_vol > SILENCE_THRESHOLD
       THEN "true_stereo"
  ELSE "mono"

\* mutant: complete silence tested with <= instead of <
determine_audio_type_SilenceInclusive(left_vol, right_vol) ==
  IF left_vol = SENTINEL_DB /\ right_vol = SENTINEL_DB THEN "unknown"
  ELSE IF left_vol <= COMPLETE_SILENCE_THRESHOLD /\ right_vol <= COMPLETE_SILENCE_THRESHOLD
       THEN "no_audio"
  ELSE IF left_vol < SILENCE_THRESHOLD /\ right_vol >= SILENCE_THRESHOLD
       THEN "pseudo_stereo_right"
  ELSE IF right_vol < SILENCE_THRESHOLD /\ left_vol >= SILENCE_THRESHOLD
       THEN "pseudo_stereo_left"
  ELSE IF left_vol >= SILENCE_THRESHOLD /\ right_vol >= SILENCE_THRESHOLD
       THEN "true_stereo"
  ELSE "mono"

\* mutant: complete silence reported as mono
determine_audio_type_SilenceIsMono(left_vol, right_vol) ==
  IF left_vol = SENTINEL_DB /\ right_vol = SENTINEL_DB THEN "unknown"
  ELSE IF left_vol < COMPLETE_SILENCE_THRESHOLD /\ right_vol < COMPLETE_SILENCE_THRESHOLD
       THEN "mono"
  ELSE IF left_vol < SILENCE_THRESHOLD /\ right_vol >= SILENCE_THRESHOLD
       THEN "pseudo_stereo_right"
  ELSE IF right_vol < SILENCE_THRESHOLD /\ left_vol >= SILENCE_THRESHOLD
       THEN "pseudo_stereo_left"
  ELSE IF left_vol >= SILENCE_THRESHOLD /\ right_vol >= SILENCE_THRESHOLD
       THEN "true_stereo"
  ELSE "mono"

_determine_audio_type(left_vol, right_vol) ==
  IF left_vol = SENTINEL_DB /\ right_vol = SENTINEL_DB THEN "unknown"
  ELSE IF left_vol < COMPLETE_SILENCE_THRESHOLD /\ right_vol < COMPLETE_SILENCE_THRESHOLD
       THEN "no_audio"
  ELSE IF left_vol < SILENCE_THRESHOLD /\ right_vol >= SILENCE_THRESHOLD
       THEN "pseudo_stereo_right"
  ELSE IF right_vol < SILENCE_THRESHOLD /\ left_vol >= SILENCE_THRESHOLD
       THEN "pseudo_stereo_left"
  ELSE IF left_vol >= SILENCE_THRESHOLD /\ right_vol >= SILENCE_THRESHOLD
       THEN "true_stereo"
  ELSE "mono"

Min(a, b) == IF a < b THEN a ELSE b
Max(a, b) == IF a > b THEN a ELSE b

\* detect_pseudo_stereo, the window of the measurement: its length in seconds
\* (-t), twice its start in seconds (-ss; the start is (duration - length) / 2)
\* and the name of the position
\* mutant: no lower limit of five seconds
detection_duration_NoFloor(duration) ==
  IF duration >= 60 THEN 60 ELSE Min(10, duration)

detection_duration(duration) ==
  IF duration >= 60 THEN 60 ELSE Min(10, Max(5, duration))

\* mutant: the window is centred whatever the duration
detection_window_AlwaysCentred(duration) ==
  LET dd == detection_duration(duration)
  IN  [t |-> dd, ss_x2 |-> Max(0, duration - dd), position |-> "middle"]

detection_window(duration) ==
  LET dd == detection_duration(duration)
  IN  IF 2 * duration > 3 * dd
      THEN [t |-> dd, ss_x2 |-> Max(0, duration - dd), position |-> "middle"]
      ELSE [t |-> dd, ss_x2 |-> 0, position |-> "start"]

\* no measurement was started
NoAstats == [t |-> 0, ss_x2 |-> 0, position |-> "failed"]

\* detect_pseudo_stereo: outcome "raise" is an exception inside the method
\* itself (caught there); "fail" is a failed measurement subprocess
detect_pseudo_stereo(m, outcome) ==
  IF outcome = "raise"
  THEN [left_volume |-> SENTINEL_DB, right_volume |-> SENTINEL_DB,
        audio_type |-> "unknown"]
  ELSE LET v == _detect_position_volumes(m, outcome)
       IN  [left_volume |-> v[1], right_volume |-> v[2],
            audio_type |-> _determine_audio_type(v[1], v[2])]

format_supported(codec) ==
  LET original_ext == IF codec \in {"aac", "mp3", "ac3"} THEN Ext(codec) ELSE ".aac"
  IN  original_ext \in AUDIO_EXTENSIONS

\* mutant: the channel fix only for pseudo_stereo_right
needs_channel_fix_RightOnly(audio_type) ==
  audio_type \in {"pseudo_stereo_right"}

\* mutant: the channel fix for every type with a silent channel
needs_channel_fix_AlsoMono(audio_type) ==
  audio_type \in {"pseudo_stereo_left", "pseudo_stereo_right", "mono"}

needs_channel_fix(audio_type) ==
  audio_type \in {"pseudo_stereo_left", "pseudo_stereo_right"}

can_copy_directly(si, va) ==
  /\ va.audio_type = "true_stereo"
  /\ si.channels >= 2
  /\ format_supported(si.codec)
  /\ ~ startswith_pcm(si.codec)

target_format(si, va) ==
  IF can_copy_directly(si, va) THEN si.codec
  ELSE IF format_supported(si.codec) /\ ~ needs_channel_fix(va.audio_type) THEN si.codec
  ELSE "aac"

\* mutant: independent ifs, every applicable reason is appended
reasons_AllApplicable(si, va) ==
  (IF va.audio_type = "no_audio" THEN << REASON_NO_AUDIO >> ELSE << >>)
  \o (IF va.audio_type = "unknown" THEN << REASON_UNKNOWN >> ELSE << >>)
  \o (IF needs_channel_fix(va.audio_type)
      THEN << REASON_CHANNEL_FIX \o "(" \o va.audio_type \o ")" >> ELSE << >>)
  \o (IF ~ format_supported(si.codec)
      THEN << REASON_UNSUPPORTED \o "(" \o si.codec \o ")" >> ELSE << >>)
  \o (IF startswith_pcm(si.codec) THEN << REASON_PCM >> ELSE << >>)
  \o (IF can_copy_directly(si, va) THEN << REASON_COPY >> ELSE << >>)

\* mutant: the PCM branch is tried before the channel fix
reasons_PcmFirst(si, va) ==
  IF va.audio_type = "no_audio" THEN << REASON_NO_AUDIO >>
  ELSE IF va.audio_type = "unknown" THEN << REASON_UNKNOWN >>
  ELSE IF startswith_pcm(si.codec) THEN << REASON_PCM >>
  ELSE IF needs_channel_fix(va.audio_type)
       THEN << REASON_CHANNEL_FIX \o "(" \o va.audio_type \o ")" >>
  ELSE IF ~ format_supported(si.codec)
       THEN << REASON_UNSUPPORTED \o "(" \o si.codec \o ")" >>
  ELSE IF can_copy_directly(si, va) THEN << REASON_COPY >>
  ELSE << REASON_STANDARD >>

\* the list reasons: one append, by the first branch of the if/elif chain
reasons(si, va) ==
  IF va.audio_type = "no_audio" THEN << REASON_NO_AUDIO >>
  ELSE IF va.audio_type = "unknown" THEN << REASON_UNKNOWN >>
  ELSE IF needs_channel_fix(va.audio_type)
       THEN << REASON_CHANNEL_FIX \o "(" \o va.audio_type \o ")" >>
  ELSE IF ~ format_supported(si.codec)
       THEN << REASON_UNSUPPORTED \o "(" \o si.codec \o ")" >>
  ELSE IF startswith_pcm(si.codec) THEN << REASON_PCM >>
  ELSE IF can_copy_directly(si, va) THEN << REASON_COPY >>
  ELSE << REASON_STANDARD >>

\* "; ".join(seq)
RECURSIVE Join(_)
Join(seq) ==
  IF seq = << >> THEN ""
  ELSE IF Len(seq) = 1 THEN seq[1]
  ELSE seq[1] \o "; " \o Join(Tail(seq))

processing_reason(si, va) == Join(reasons(si, va))

make_processing_decision(si, va) ==
  [can_copy_directly |-> can_copy_directly(si, va),
   needs_channel_fix |-> needs_channel_fix(va.audio_type),
   target_format |-> target_format(si, va),
   processing_reason |-> processing_reason(si, va)]

\* the folders of a tree: the root (0) and one subfolder
Dirs == {0, 1}

VARIABLES
  input_tree,          \* file -> its path below input_dir: folder, stem, suffix
  same_folder,         \* __init__: write each output beside its input
  keep_structure       \* __init__: repeat the input's folder below output_dir

\* _get_output_path: <stem><ext> beside the input, in the same folder below
\* output_dir, or in output_dir itself.  A batch has one output root, so a
\* path is given by its folder below that root, its stem and its suffix
_get_output_path(f, fmt) ==
  [dir |-> IF same_folder THEN input_tree[f].dir
           ELSE IF keep_structure THEN input_tree[f].dir
           ELSE 0,
   stem |-> input_tree[f].stem,
   ext |-> IF fmt \in {"aac", "mp3", "ac3", "flac", "ogg", "wav"} THEN Ext(fmt) ELSE ".aac"]

\* the path of input file f
VideoPath(f) == input_tree[f]

\* the ffmpeg command line built by _execute_audio_processing
\* mutant: the standard transcode never carries a bitrate
BuildCmd_NoBitrate(f, out, d) ==
  IF d.can_copy_directly
  THEN [shape |-> "copy", input |-> VideoPath(f), output |-> out,
        codec |-> "copy", bitrate |-> "", filter |-> ""]
  ELSE IF d.needs_channel_fix
  THEN [shape |-> "channel_fix", input |-> VideoPath(f), output |-> out,
        codec |-> "aac", bitrate |-> "128k", filter |-> PAN_FILTER]
  ELSE [shape |-> "standard", input |-> VideoPath(f), output |-> out,
        codec |-> d.target_format, bitrate |-> "", filter |-> ""]

BuildCmd(f, out, d) ==
  IF d.can_copy_directly
  THEN [shape |-> "copy", input |-> VideoPath(f), output |-> out,
        codec |-> "copy", bitrate |-> "", filter |-> ""]
  ELSE IF d.needs_channel_fix
  THEN [shape |-> "channel_fix", input |-> VideoPath(f), output |-> out,
        codec |-> "aac", bitrate |-> "128k", filter |-> PAN_FILTER]
  ELSE [shape |-> "standard", input |-> VideoPath(f), output |-> out,
        codec |-> d.target_format,
        bitrate |-> IF d.target_format = "aac" THEN "128k" ELSE "",
        filter |-> ""]


\* config/app_config.py MAX_FILE_SIZE_MB; file sizes are in whole MiB
MAX_FILE_SIZE_MB == 500
\* size in MiB of a 128k MP3 re-encode, below the threshold
Mp3Size == 100
Absent == -1

Workers == 1..MaxThreads

\* the thread of the main window, which calls pause(), resume() and stop()
GuiThread == MaxThreads + 1
OutExts == {".aac", ".mp3", ".flac"}
\* the output paths of a batch
Paths ==
  [dir : {0} \cup { input_tree[f].dir : f \in 1..MaxFiles },
   stem : { input_tree[f].stem : f \in 1..MaxFiles },
   ext : OutExts]

\* dataclass defaults
NoInfo == [codec |-> "unknown", channels |-> 0, duration |-> 0]
NoVolume ==
  [left_volume |-> SENTINEL_DB, right_volume |-> SENTINEL_DB,
   audio_type |-> "unknown"]
NoDecision ==
  [can_copy_directly |-> FALSE, needs_channel_fix |-> FALSE,
   target_format |-> "aac", processing_reason |-> ""]
NoPath == [dir |-> 0, stem |-> 0, ext |-> ""]
NoCmd ==
  [shape |-> "", input |-> NoPath, output |-> NoPath, codec |-> "", bitrate |-> "", filter |-> ""]
\* nothing emitted on current_file_progress for the file yet
NoShown ==
  [run |-> "", value |-> 0, announced |-> 0, prev_run |-> "", prev_value |-> 0]
NoResult ==
  [success |-> FALSE, input_file |-> 0, output_file |-> NoPath, error_msg |-> "",
   audio_type |-> "unknown", left_volume |-> -30, right_volume |-> -30,
   was_copied_directly |-> FALSE, processing_decision |-> ""]

\* ------------------------------------------------ ProcessResult constructors
\* extract_audio: no stream info
ResultNoStream(f) ==
  [NoResult EXCEPT !.input_file = f, !.error_msg = ERR_NO_STREAM]

\* mutant: the except clause reports no message
ResultException_NoMessage(f) ==
  [NoResult EXCEPT !.input_file = f]

\* extract_audio: the except clause
ResultException(f) ==
  [NoResult EXCEPT !.input_file = f, !.error_msg = ERR_EXCEPTION]

\* mutant: the skip result keeps the decision's was_copied_directly
ResultSkipped_AsCopied(f, out, va) ==
  [success |-> TRUE, input_file |-> f, output_file |-> out, error_msg |-> "",
   audio_type |-> va.audio_type, left_volume |-> va.left_volume,
   right_volume |-> va.right_volume, was_copied_directly |-> TRUE,
   processing_decision |-> REASON_SKIP]

\* extract_audio: skip_existing and the output exists
ResultSkipped(f, out, va) ==
  [success |-> TRUE, input_file |-> f, output_file |-> out, error_msg |-> "",
   audio_type |-> va.audio_type, left_volume |-> va.left_volume,
   right_volume |-> va.right_volume, was_copied_directly |-> FALSE,
   processing_decision |-> REASON_SKIP]

\* extract_audio: _execute_audio_processing returned True
ResultSuccess(f, final_output, va, d) ==
  [success |-> TRUE, input_file |-> f, output_file |-> final_output, error_msg |-> "",
   audio_type |-> va.audio_type, left_volume |-> va.left_volume,
   right_volume |-> va.right_volume, was_copied_directly |-> d.can_copy_directly,
   processing_decision |-> d.processing_reason]

\* mutant: a run that did not end with exit code 0 is reported as a success
ResultExecFailed_AsSuccess(f, out, va, d) ==
  [success |-> TRUE, input_file |-> f, output_file |-> out, error_msg |-> "",
   audio_type |-> va.audio_type, left_volume |-> va.left_volume,
   right_volume |-> va.right_volume, was_copied_directly |-> d.can_copy_directly,
   processing_decision |-> d.processing_reason]

\* extract_audio: _execute_audio_processing returned False
ResultExecFailed(f, out, va, d) ==
  [success |-> FALSE, input_file |-> f, output_file |-> out, error_msg |-> ERR_EXEC,
   audio_type |-> va.audio_type, left_volume |-> va.left_volume,
   right_volume |-> va.right_volume, was_copied_directly |-> FALSE,
   processing_decision |-> d.processing_reason]

\* the MP3 re-encode command of _check_and_compress_if_needed
CompressCmd(out) ==
  [shape |-> "compress", input |-> out, output |-> [out EXCEPT !.ext = ".mp3"],
   codec |-> "mp3", bitrate |-> "128k", filter |-> ""]

\* -------------------------------------------------------------------- state
VARIABLES
  media,               \* the input tree: file -> its audio stream (environment)
  env_faults,          \* which steps of the pipeline the environment lets fail
  fs,                  \* the output tree: path -> size in MiB, or Absent
  skip_existing, max_threads,
  video_files, total_files, processed_files,
  is_paused, is_stopped,
  current_active_file, active_processes,
  file_queue,
  run_pc, spawned,     \* position of run() and number of workers started
  wpc,                 \* position of each worker thread
  video_file, stream_info, volume_analysis, decision, output_file, cmd, result,
  phase,               \* "primary" or "compress": which ffmpeg run is monitored
  progress,            \* the worker's computed overall percentage
  proc,                \* the worker's Popen handle: none/running/exit0/exit1/terminated
  fault,               \* which step of the current file's pipeline failed
  last_progress,       \* local of _run_ffmpeg_with_progress
  file_progress,       \* the percentage the worker is about to emit
  ended,               \* the process has printed progress=end
  shown,               \* the last emission of the worker on current_file_progress
                       \* for its file, and the one before it
  emitted,             \* file -> number of ProcessResults emitted (file_processed)
  finished,            \* number of processing_finished emissions
  batch_no,            \* 1 for the first AudioExtractor over the tree, 2 for the next
  stop_during,         \* ghost: the files whose process was monitored when stop() came
  astats_cmd,          \* -ss (doubled), -t and position of the worker's astats run
  audio_progress_bar,  \* main window: the value of the overall progress bar
  bare_reads,          \* ghost: the shared fields read without the mutex
  progress_updated,    \* the last value emitted on the signal progress_updated
  mutex,               \* self.mutex: 0 when free, else the thread that holds it
  folder,              \* subtitle renamer: name -> the subtitle file of that name, 0 if none
  log_state,           \* .processing_log.json: missing, valid or unreadable
  history,             \* the batches in a valid log, oldest first
  rename_overwrites,   \* platform: Path.rename onto an existing file replaces it
  snapshots            \* ghost: the folder before each batch of history

cfgvars == << media, env_faults, skip_existing, max_threads, batch_no, input_tree,
             same_folder, keep_structure >>
batchvars == << video_files, total_files, processed_files, file_queue, run_pc, spawned,
                emitted, finished >>
flagvars == << is_paused, is_stopped, stop_during >>
sharedvars == << current_active_file, active_processes, mutex >>
renamervars == << folder, log_state, history, rename_overwrites, snapshots >>
localvars == << video_file, stream_info, volume_analysis, astats_cmd, decision,
                output_file, cmd, result, phase, progress, fault >>
progvars == << last_progress, file_progress, ended, shown >>
guivars == << audio_progress_bar, bare_reads, progress_updated >>
vars == << media, env_faults, fs, skip_existing, max_threads, video_files, total_files,
           processed_files, is_paused, is_stopped, current_active_file,
           active_processes, file_queue, run_pc, spawned, wpc, video_file,
           stream_info, volume_analysis, decision, output_file, cmd, result, phase,
           progress, proc, fault, emitted, finished, batch_no, last_progress,
           file_progress, ended, shown, stop_during, astats_cmd, audio_progress_bar,
           bare_reads, progress_updated, mutex, input_tree, same_folder,
           keep_structure, folder, log_state, history, rename_overwrites, snapshots >>

\* the state after __init__: the first input file holds a medium of catalog,
\* the others one of BatchCatalog
InitOver(catalog, counts, threads, skips, faults, trees, folders, structures) ==
  /\ input_tree \in trees
  /\ same_folder \in folders
  /\ keep_structure \in structures
  /\ media \in UNION { { [i \in 1..n |-> IF i = 1 THEN m ELSE rest[i]] :
                            m \in catalog, rest \in [1..n -> BatchCatalog] } : n \in counts }
  /\ env_faults = faults
  /\ \E pre \in BOOLEAN : fs = [p \in Paths |-> IF pre THEN 100 ELSE Absent]
  /\ skip_existing \in skips
  /\ max_threads \in threads
  /\ video_files = << >>
  /\ total_files = 0
  /\ processed_files = 0
  /\ is_paused = FALSE
  /\ is_stopped = FALSE
  /\ current_active_file = 0
  /\ active_processes = {}
  /\ file_queue = << >>
  /\ run_pc = "idle"
  /\ spawned = 0
  /\ wpc = [w \in Workers |-> "unstarted"]
  /\ video_file = [w \in Workers |-> 0]
  /\ stream_info = [w \in Workers |-> NoInfo]
  /\ volume_analysis = [w \in Workers |-> NoVolume]
  /\ decision = [w \in Workers |-> NoDecision]
  /\ output_file = [w \in Workers |-> NoPath]
  /\ cmd = [w \in Workers |-> NoCmd]
  /\ result = [w \in Workers |-> NoResult]
  /\ phase = [w \in Workers |-> "primary"]
  /\ progress = [w \in Workers |-> 0]
  /\ proc = [w \in Workers |-> "none"]
  /\ fault = [w \in Workers |-> "none"]
  /\ last_progress = [w \in Workers |-> 0]
  /\ file_progress = [w \in Workers |-> 0]
  /\ ended = [w \in Workers |-> FALSE]
  /\ shown = [w \in Workers |-> NoShown]
  /\ emitted = [f \in 1..MaxFiles |-> 0]
  /\ finished = 0
  /\ batch_no = 1
  /\ stop_during = {}
  /\ astats_cmd = [w \in Workers |-> NoAstats]
  /\ audio_progress_bar = 0
  /\ bare_reads = {}
  /\ progress_updated = 0
  /\ mutex = 0

\* self.mutex.lock() returns for thread t: the mutex is free, or t took it at
\* an earlier step; self.mutex.unlock()
lock(t) == mutex \in {0, t}

unlock == mutex' = 0

\* the subtitle files of a folder and the names they can have
MaxSubs == 2
Subs == 1..MaxSubs
Names == 1..(MaxSubs + 1)

\* the subtitle tab is not used: the first files under the first names, no log
RenamerIdle ==
  /\ folder = [n \in Names |-> IF n \in Subs THEN n ELSE 0]
  /\ log_state = "missing"
  /\ history = << >>
  /\ rename_overwrites = TRUE
  /\ snapshots = << >>

\* a tree of differently named videos in one folder
DefaultTree == [f \in 1..MaxFiles |-> [dir |-> 0, stem |-> f, ext |-> ".mp4"]]

\* ... and the defaults of __init__: same_folder = False, keep_structure = True
InitWith(catalog, counts, threads, skips, faults) ==
  /\ InitOver(catalog, counts, threads, skips, faults, {DefaultTree}, {FALSE}, {TRUE})
  /\ RenamerIdle

\* the steps of extract_audio that can fail, and outcomes of a step
Steps == {"probe", "detect", "decision", "exec", "partial", "compress", "unlink"}
Outcomes(step, bad) == {"ok"} \cup (IF step \in env_faults THEN bad ELSE {})

\* a batch: ffprobe and the transcoding run may fail
Init == InitWith(BatchCatalog, 0..MaxFiles, 1..MaxThreads, {TRUE}, {"probe", "exec"})

\* one worker; the first file holds any medium of the catalog and every step
\* may fail
InitPipeline == InitWith(FullCatalog, {MaxFiles}, {1}, BOOLEAN, Steps)


\* mutant: one thread per configured slot, whatever the number of files
PoolSize_MaxThreads == max_threads

PoolSize == Min(max_threads, total_files)

\* ------------------------------------------------------------------- run()
\* scan_video_files, fill the queue; an empty scan or a scan that raises
\* emits processing_finished at once
RunScan ==
  /\ run_pc = "idle"
  /\ \E outcome \in {"ok", "raise"} :
       IF outcome = "ok"
       THEN LET n == Len(media) IN
            /\ video_files' = [i \in 1..n |-> i]
            /\ total_files' = n
            /\ IF n = 0
               THEN /\ finished' = finished + 1
                    /\ run_pc' = "finished"
                    /\ file_queue' = file_queue
               ELSE /\ finished' = finished
                    /\ run_pc' = "spawn"
                    /\ file_queue' = [i \in 1..n |-> i]
       ELSE /\ finished' = finished + 1
            /\ run_pc' = "finished"
            /\ UNCHANGED << video_files, total_files, file_queue >>
  /\ UNCHANGED << renamervars, cfgvars, guivars, progvars, fs, processed_files, spawned, emitted, flagvars, sharedvars,
                  wpc, localvars, proc >>

\* the loop of thread.start(): the pool's workers exist from here on
RunSpawn ==
  /\ run_pc = "spawn"
  /\ spawned = 0
  /\ spawned' = PoolSize
  /\ wpc' = [w \in Workers |-> IF w <= PoolSize THEN "loop" ELSE wpc[w]]
  /\ UNCHANGED << renamervars, cfgvars, guivars, progvars, fs, video_files, total_files, processed_files, file_queue,
                  run_pc, emitted, finished, flagvars, sharedvars, localvars, proc >>

\* mutant: only the first worker thread is joined
RunJoin_FirstOnly ==
  /\ run_pc = "spawn"
  /\ spawned = PoolSize
  /\ spawned > 0
  /\ wpc[1] = "exit"
  /\ finished' = finished + 1
  /\ run_pc' = "finished"
  /\ UNCHANGED << renamervars, cfgvars, guivars, progvars, fs, video_files, total_files, processed_files, file_queue,
                  spawned, emitted, flagvars, sharedvars, wpc, localvars, proc >>

\* every thread.join() has returned: emit processing_finished
RunJoin ==
  /\ run_pc = "spawn"
  /\ spawned = PoolSize
  /\ spawned > 0
  /\ \A w \in 1..spawned : wpc[w] = "exit"
  /\ finished' = finished + 1
  /\ run_pc' = "finished"
  /\ UNCHANGED << renamervars, cfgvars, guivars, progvars, fs, video_files, total_files, processed_files, file_queue,
                  spawned, emitted, flagvars, sharedvars, wpc, localvars, proc >>

\* ------------------------------------------------------- control methods
\* pause(), resume() and stop() are called from the GUI thread while the
\* batch has not finished
Pause ==
  /\ run_pc # "finished"
  /\ ~ is_paused
  /\ is_paused' = TRUE
  /\ UNCHANGED << renamervars, cfgvars, guivars, progvars, fs, batchvars, is_stopped, stop_during, sharedvars, wpc, localvars, proc >>

\* mutant: resume() also clears the stop flag
Resume_ClearsStop ==
  /\ run_pc # "finished"
  /\ is_paused
  /\ is_paused' = FALSE
  /\ is_stopped' = FALSE
  /\ UNCHANGED << renamervars, cfgvars, guivars, progvars, fs, batchvars, stop_during, sharedvars, wpc, localvars, proc >>

Resume ==
  /\ run_pc # "finished"
  /\ is_paused
  /\ is_paused' = FALSE
  /\ UNCHANGED << renamervars, cfgvars, guivars, progvars, fs, batchvars, is_stopped, stop_during, sharedvars, wpc, localvars, proc >>

\* stop(): set the flag, terminate and forget every registered process
Stop ==
  /\ run_pc # "finished"
  /\ is_stopped' = TRUE
  /\ lock(GuiThread)
  /\ unlock
  /\ proc' = [w \in Workers |->
                IF w \in active_processes /\ proc[w] = "running"
                THEN "terminated" ELSE proc[w]]
  /\ active_processes' = {}
  /\ stop_during' = stop_during \cup
       { video_file[w] : w \in { v \in Workers : wpc[v] \in {"monitor", "emit_progress"} } }
  /\ UNCHANGED << renamervars, cfgvars, guivars, progvars, fs, batchvars, is_paused, current_active_file, wpc, localvars >>


\* ------------------------------------------------------- _worker_thread
\* mutant: the head of the queue is read but not removed
WLoop_Peek(w) ==
  /\ wpc[w] = "loop"
  /\ IF file_queue # << >> /\ ~ is_stopped
     THEN /\ video_file' = [video_file EXCEPT ![w] = Head(file_queue)]
          /\ file_queue' = file_queue
          /\ wpc' = [wpc EXCEPT ![w] = "pause"]
     ELSE /\ wpc' = [wpc EXCEPT ![w] = "exit"]
          /\ UNCHANGED << file_queue, video_file >>
  /\ UNCHANGED << renamervars, cfgvars, guivars, progvars, fs, video_files, total_files, processed_files, run_pc, spawned,
                  emitted, finished, flagvars, sharedvars, stream_info, volume_analysis, astats_cmd,
                  decision, output_file, cmd, result, phase, progress, fault, proc >>

\* while not file_queue.empty() and not self.is_stopped: get_nowait()
WLoop(w) ==
  /\ wpc[w] = "loop"
  /\ IF file_queue # << >> /\ ~ is_stopped
     THEN /\ video_file' = [video_file EXCEPT ![w] = Head(file_queue)]
          /\ file_queue' = Tail(file_queue)
          /\ wpc' = [wpc EXCEPT ![w] = "pause"]
     ELSE /\ wpc' = [wpc EXCEPT ![w] = "exit"]
          /\ UNCHANGED << file_queue, video_file >>
  /\ UNCHANGED << renamervars, cfgvars, guivars, progvars, fs, video_files, total_files, processed_files, run_pc, spawned,
                  emitted, finished, flagvars, sharedvars, stream_info, volume_analysis, astats_cmd,
                  decision, output_file, cmd, result, phase, progress, fault, proc >>

\* mutant: the worker does not wait while is_paused is set
WPause_NoBlock(w) ==
  /\ wpc[w] = "pause"
  /\ wpc' = [wpc EXCEPT ![w] = IF is_stopped THEN "exit" ELSE "announce"]
  /\ UNCHANGED << renamervars, cfgvars, guivars, progvars, fs, batchvars, flagvars, sharedvars, localvars, proc >>

\* mutant: the pause loop does not look at is_stopped
WPause_IgnoresStop(w) ==
  /\ wpc[w] = "pause"
  /\ ~ is_paused
  /\ wpc' = [wpc EXCEPT ![w] = IF is_stopped THEN "exit" ELSE "announce"]
  /\ UNCHANGED << renamervars, cfgvars, guivars, progvars, fs, batchvars, flagvars, sharedvars, localvars, proc >>

\* while self.is_paused and not self.is_stopped: sleep; then the stop check
WPause(w) ==
  /\ wpc[w] = "pause"
  /\ ~ (is_paused /\ ~ is_stopped)
  /\ wpc' = [wpc EXCEPT ![w] = IF is_stopped THEN "exit" ELSE "announce"]
  /\ UNCHANGED << renamervars, cfgvars, guivars, progvars, fs, batchvars, flagvars, sharedvars, localvars, proc >>

\* set current_active_file under the mutex, emit current_file_changed
WAnnounce(w) ==
  /\ wpc[w] = "announce"
  /\ lock(w)
  /\ unlock
  /\ current_active_file' = video_file[w]
  /\ wpc' = [wpc EXCEPT ![w] = "extract"]
  /\ UNCHANGED << renamervars, cfgvars, guivars, progvars, fs, batchvars, flagvars, active_processes, localvars, proc >>

\* extract_audio from its entry to the Popen of the transcoding process, or
\* to an early return.  The outcomes of the environment:
\*   probe   get_audio_stream_info: "ok", or "fail" (ffprobe cannot run, exits
\*           non-zero, prints malformed JSON or no stream: None is returned)
\*   detect  detect_pseudo_stereo: "ok", "fail" (the astats run cannot be
\*           started), "timeout", "norms" (its report has no RMS line) or
\*           "raise" (an exception in the method itself, caught there)
\*   decide  make_processing_decision and _get_output_path: "ok" or "raise"
\*   exec    _execute_audio_processing up to Popen: "ok" or "raise" (mkdir or
\*           Popen raises: False is returned)
WExtract(w) ==
  /\ wpc[w] = "extract"
  /\ \E probe \in Outcomes("probe", {"fail"}),
        detect \in Outcomes("detect", {"fail", "timeout", "norms", "raise"}),
        decide \in Outcomes("decision", {"raise"}),
        exec \in Outcomes("exec", {"raise"}) :
       LET f == video_file[w]
           si == [codec |-> media[f].codec, channels |-> media[f].channels,
                  duration |-> media[f].duration]
       IN
       \E va \in {detect_pseudo_stereo(media[f], detect)} :
       \E d \in {make_processing_decision(si, va)} :
       LET ac == IF detect = "raise" THEN NoAstats ELSE detection_window(si.duration)
           out == _get_output_path(f, d.target_format)
       IN  IF probe = "fail"
           THEN /\ detect = "ok" /\ decide = "ok" /\ exec = "ok"
                /\ result' = [result EXCEPT ![w] = ResultNoStream(f)]
                /\ fault' = [fault EXCEPT ![w] = "probe"]
                /\ wpc' = [wpc EXCEPT ![w] = "emit"]
                /\ UNCHANGED << stream_info, volume_analysis, astats_cmd, decision, output_file,
                                cmd, proc >>
           ELSE IF decide = "raise"
           THEN /\ exec = "ok"
                /\ stream_info' = [stream_info EXCEPT ![w] = si]
                /\ volume_analysis' = [volume_analysis EXCEPT ![w] = va]
                /\ astats_cmd' = [astats_cmd EXCEPT ![w] = ac]
                /\ result' = [result EXCEPT ![w] = ResultException(f)]
                /\ fault' = [fault EXCEPT ![w] = "decision"]
                /\ wpc' = [wpc EXCEPT ![w] = "emit"]
                /\ UNCHANGED << decision, output_file, cmd, proc >>
           ELSE /\ stream_info' = [stream_info EXCEPT ![w] = si]
                /\ volume_analysis' = [volume_analysis EXCEPT ![w] = va]
                /\ astats_cmd' = [astats_cmd EXCEPT ![w] = ac]
                /\ decision' = [decision EXCEPT ![w] = d]
                /\ output_file' = [output_file EXCEPT ![w] = out]
                /\ IF skip_existing /\ fs[out] # Absent
                   THEN /\ exec = "ok"
                        /\ result' = [result EXCEPT ![w] = ResultSkipped(f, out, va)]
                        /\ fault' = [fault EXCEPT ![w] =
                                       IF detect = "ok" THEN "none" ELSE "detect"]
                        /\ wpc' = [wpc EXCEPT ![w] = "emit"]
                        /\ UNCHANGED << cmd, proc >>
                   ELSE IF exec = "raise"
                   THEN /\ result' = [result EXCEPT ![w] = ResultExecFailed(f, out, va, d)]
                        /\ fault' = [fault EXCEPT ![w] = "exec"]
                        /\ wpc' = [wpc EXCEPT ![w] = "emit"]
                        /\ UNCHANGED << cmd, proc >>
                   ELSE /\ cmd' = [cmd EXCEPT ![w] = BuildCmd(f, out, d)]
                        /\ proc' = [proc EXCEPT ![w] = "running"]
                        /\ fault' = [fault EXCEPT ![w] =
                                       IF detect = "ok" THEN "none" ELSE "detect"]
                        /\ wpc' = [wpc EXCEPT ![w] = "register"]
                        /\ UNCHANGED result
  /\ UNCHANGED << renamervars, cfgvars, guivars, progvars, fs, batchvars, flagvars, sharedvars, video_file, phase,
                  progress >>

\* _run_ffmpeg_with_progress: append the process to active_processes;
\* last_progress = 0
WRegister(w) ==
  /\ wpc[w] = "register"
  /\ lock(w)
  /\ unlock
  /\ active_processes' = active_processes \cup {w}
  /\ last_progress' = [last_progress EXCEPT ![w] = 0]
  /\ ended' = [ended EXCEPT ![w] = FALSE]
  /\ wpc' = [wpc EXCEPT ![w] = "monitor"]
  /\ UNCHANGED << renamervars, cfgvars, guivars, file_progress, shown, fs, batchvars, flagvars, current_active_file, localvars, proc >>

\* what the end of worker w's ffmpeg process leaves in the output tree: exit
\* code 0 leaves the whole output; a run that fails or is terminated leaves
\* the tree as it was or, having opened its output (-y), a truncated file
Written(w, how, partial) ==
  IF how = "exit0"
  THEN [fs EXCEPT ![cmd[w].output] =
          IF phase[w] = "primary" THEN media[video_file[w]].size ELSE Mp3Size]
  ELSE IF partial THEN [fs EXCEPT ![cmd[w].output] = 0]
  ELSE fs

\* the monitoring loop: on is_stopped terminate the process (which may have
\* ended by itself just before) and leave the loop; otherwise read the
\* progress stream until the process has ended
WMonitor(w) ==
  /\ wpc[w] = "monitor"
  /\ \E how \in {"exit0", "exit1", "terminated"}, partial \in BOOLEAN :
       /\ how = "exit1" => (IF phase[w] = "primary" THEN "exec" ELSE "compress") \in env_faults
       /\ how = "terminated" => is_stopped
       /\ proc[w] = "terminated" => how = "terminated"
       /\ partial => (how # "exit0" /\ "partial" \in env_faults)
       /\ proc' = [proc EXCEPT ![w] = how]
       /\ fs' = Written(w, how, partial)
  /\ wpc' = [wpc EXCEPT ![w] = "communicate"]
  /\ UNCHANGED << renamervars, cfgvars, guivars, progvars, batchvars, flagvars, sharedvars, localvars >>

\* process.communicate(), removal from active_processes, returncode == 0; then,
\* for the primary run, extract_audio's branch on success and, if it
\* succeeded, _check_and_compress_if_needed up to the Popen of the MP3
\* re-encode (check "raise": an exception there returns the output as it is);
\* for the re-encode, the branch of _check_and_compress_if_needed on its
\* success: output_file.unlink(), whose failure is ignored (del "raise"), and
\* the MP3 path as the result
WCommunicate(w) ==
  /\ wpc[w] = "communicate"
  /\ lock(w)
  /\ unlock
  /\ active_processes' = active_processes \ {w}
  /\ LET ok == proc[w] = "exit0"
         f == video_file[w]
         out == output_file[w]
         va == volume_analysis[w]
         d == decision[w]
     IN  IF phase[w] = "primary"
         THEN IF ~ ok
              THEN /\ result' = [result EXCEPT ![w] = ResultExecFailed(f, out, va, d)]
                   /\ fault' = [fault EXCEPT ![w] = "exec"]
                   /\ wpc' = [wpc EXCEPT ![w] = "emit"]
                   /\ proc' = [proc EXCEPT ![w] = "none"]
                   /\ UNCHANGED << fs, cmd, phase >>
              ELSE \E check \in Outcomes("compress", {"raise"}) :
                     IF check = "ok" /\ fs[out] # Absent /\ fs[out] > MAX_FILE_SIZE_MB
                     THEN /\ cmd' = [cmd EXCEPT ![w] = CompressCmd(out)]
                          /\ proc' = [proc EXCEPT ![w] = "running"]
                          /\ phase' = [phase EXCEPT ![w] = "compress"]
                          /\ wpc' = [wpc EXCEPT ![w] = "register"]
                          /\ UNCHANGED << result, fault, fs >>
                     ELSE /\ result' = [result EXCEPT ![w] = ResultSuccess(f, out, va, d)]
                          /\ fault' = [fault EXCEPT ![w] =
                                         IF check = "raise" THEN "compress" ELSE fault[w]]
                          /\ wpc' = [wpc EXCEPT ![w] = "emit"]
                          /\ proc' = [proc EXCEPT ![w] = "none"]
                          /\ UNCHANGED << fs, cmd, phase >>
         ELSE /\ wpc' = [wpc EXCEPT ![w] = "emit"]
              /\ proc' = [proc EXCEPT ![w] = "none"]
              /\ UNCHANGED << cmd, phase >>
              /\ IF ok
                 THEN \E del \in Outcomes("unlink", {"raise"}) :
                        /\ fs' = IF del = "ok" THEN [fs EXCEPT ![out] = Absent] ELSE fs
                        /\ result' = [result EXCEPT ![w] =
                                        ResultSuccess(f, cmd[w].output, va, d)]
                        /\ fault' = [fault EXCEPT ![w] =
                                       IF del = "ok" THEN fault[w] ELSE "unlink"]
                 ELSE /\ result' = [result EXCEPT ![w] = ResultSuccess(f, out, va, d)]
                      /\ fault' = [fault EXCEPT ![w] = "compress"]
                      /\ UNCHANGED fs
  /\ UNCHANGED << renamervars, cfgvars, guivars, progvars, batchvars, flagvars, current_active_file, video_file,
                  stream_info, volume_analysis, astats_cmd, decision, output_file, progress >>

\* self.file_processed.emit(result): extract_audio has returned, its locals
\* are gone and the result now belongs to the observers
WEmit(w) ==
  /\ wpc[w] = "emit"
  /\ emitted' = [emitted EXCEPT ![video_file[w]] = @ + 1]
  /\ wpc' = [wpc EXCEPT ![w] = "count"]
  /\ stream_info' = [stream_info EXCEPT ![w] = NoInfo]
  /\ volume_analysis' = [volume_analysis EXCEPT ![w] = NoVolume]
  /\ astats_cmd' = [astats_cmd EXCEPT ![w] = NoAstats]
  /\ decision' = [decision EXCEPT ![w] = NoDecision]
  /\ output_file' = [output_file EXCEPT ![w] = NoPath]
  /\ cmd' = [cmd EXCEPT ![w] = NoCmd]
  /\ result' = [result EXCEPT ![w] = NoResult]
  /\ phase' = [phase EXCEPT ![w] = "primary"]
  /\ fault' = [fault EXCEPT ![w] = "none"]
  /\ shown' = [shown EXCEPT ![w] = NoShown]
  /\ UNCHANGED << renamervars, cfgvars, guivars, last_progress, file_progress, ended, fs, video_files, total_files, processed_files, file_queue,
                  run_pc, spawned, finished, flagvars, sharedvars, video_file, progress,
                  proc >>

\* mutant: the increment of processed_files is lost
WCount_LostUpdate(w) ==
  /\ wpc[w] = "count"
  /\ lock(w)
  /\ unlock
  /\ progress' = [progress EXCEPT ![w] = (processed_files * 100) \div total_files]
  /\ wpc' = [wpc EXCEPT ![w] = "progress"]
  /\ UNCHANGED << renamervars, cfgvars, guivars, progvars, fs, batchvars, flagvars, current_active_file, active_processes, video_file, stream_info,
                  volume_analysis, astats_cmd, decision, output_file, cmd, result, phase, fault, proc >>

\* mutant: the increment returns without unlock()
WCount_KeepsMutex(w) ==
  /\ wpc[w] = "count"
  /\ lock(w)
  /\ mutex' = w
  /\ processed_files' = processed_files + 1
  /\ progress' = [progress EXCEPT ![w] = ((processed_files + 1) * 100) \div total_files]
  /\ wpc' = [wpc EXCEPT ![w] = "progress"]
  /\ UNCHANGED << renamervars, cfgvars, guivars, progvars, fs, video_files, total_files, file_queue, run_pc, spawned,
                  emitted, finished, flagvars, current_active_file, active_processes, video_file, stream_info,
                  volume_analysis, astats_cmd, decision, output_file, cmd, result, phase, fault, proc >>

\* under the mutex: processed_files += 1 and the overall percentage
WCount(w) ==
  /\ wpc[w] = "count"
  /\ lock(w)
  /\ unlock
  /\ processed_files' = processed_files + 1
  /\ progress' = [progress EXCEPT ![w] = ((processed_files + 1) * 100) \div total_files]
  /\ wpc' = [wpc EXCEPT ![w] = "progress"]
  /\ UNCHANGED << renamervars, cfgvars, guivars, progvars, fs, video_files, total_files, file_queue, run_pc, spawned,
                  emitted, finished, flagvars, current_active_file, active_processes, video_file, stream_info,
                  volume_analysis, astats_cmd, decision, output_file, cmd, result, phase, fault, proc >>

\* self.progress_updated.emit(progress); the next iteration starts afresh
WProgress(w) ==
  /\ wpc[w] = "progress"
  /\ wpc' = [wpc EXCEPT ![w] = "loop"]
  /\ video_file' = [video_file EXCEPT ![w] = 0]
  /\ progress' = [progress EXCEPT ![w] = 0]
  /\ progress_updated' = progress[w]
  /\ UNCHANGED << renamervars, cfgvars, audio_progress_bar, bare_reads, progvars, fs, batchvars, flagvars, sharedvars, stream_info,
                  volume_analysis, astats_cmd, decision, output_file, cmd, result, phase, fault, proc >>

Worker(w) ==
  \/ WLoop(w) \/ WPause(w) \/ WAnnounce(w) \/ WExtract(w) \/ WRegister(w)
  \/ WMonitor(w) \/ WCommunicate(w) \/ WEmit(w) \/ WCount(w) \/ WProgress(w)

Next ==
  \/ RunScan \/ RunSpawn \/ RunJoin
  \/ Pause \/ Resume \/ Stop
  \/ \E w \in Workers : Worker(w)

\* a batch of up to MaxFiles files and MaxThreads workers
Spec == Init /\ [][Next]_vars

\* one worker that is never paused or stopped takes the files through the
\* whole pipeline, the first file over the full catalog
NextPipeline ==
  \/ RunScan \/ RunSpawn \/ RunJoin
  \/ \E w \in Workers : Worker(w)

SpecPipeline == InitPipeline /\ [][NextPipeline]_vars


\* ------------------------------------------- the progress stream of ffmpeg
\* elapsed output times a line out_time_ms= can carry, in whole seconds
Times == {-1, 1, 3}
\* the lines of -progress pipe:1 the loop looks at: out_time_ms=<t> (ok FALSE:
\* the value is not a number) and progress=end
ProgressLines ==
  [key : {"out_time_ms"}, t : Times, ok : BOOLEAN]
  \cup { [key |-> "progress", t |-> 0, ok |-> TRUE] }

\* min(100, int((current_time / duration) * 100)); int() truncates toward zero
Percent(current_time, duration) ==
  Min(100, IF current_time >= 0 THEN (current_time * 100) \div duration
           ELSE - (((- current_time) * 100) \div duration))

\* mutant: every computed percentage passes
exceeds_last_Always(progress_now, last) == TRUE

\* if progress > last_progress
exceeds_last(progress_now, last) == progress_now > last

\* one iteration of the monitoring loop that reads a line: the stop flag is
\* not set and readline() returns a progress line.  An out_time_ms line whose
\* percentage exceeds last_progress updates it and, if the file is the current
\* active file (read under the mutex), goes on to emit it; progress=end goes on
\* to emit 100 under the same test
WReadLine(w) ==
  /\ wpc[w] = "monitor"
  /\ lock(w)
  /\ unlock
  /\ ~ is_stopped
  /\ proc[w] = "running"
  /\ media[video_file[w]].lines
  /\ ~ ended[w]
  /\ \E line \in ProgressLines :
       LET duration == stream_info[w].duration
           is_active == current_active_file = video_file[w]
       IN  IF line.key = "out_time_ms"
           THEN IF line.ok /\ duration > 0
                   /\ exceeds_last(Percent(line.t, duration), last_progress[w])
                THEN /\ last_progress' =
                          [last_progress EXCEPT ![w] = Percent(line.t, duration)]
                     /\ IF is_active
                        THEN /\ file_progress' =
                                  [file_progress EXCEPT ![w] = Percent(line.t, duration)]
                             /\ wpc' = [wpc EXCEPT ![w] = "emit_progress"]
                        ELSE UNCHANGED << file_progress, wpc >>
                     /\ UNCHANGED ended
                ELSE UNCHANGED << last_progress, file_progress, wpc, ended >>
           ELSE /\ ended' = [ended EXCEPT ![w] = TRUE]
                /\ IF is_active
                   THEN /\ file_progress' = [file_progress EXCEPT ![w] = 100]
                        /\ wpc' = [wpc EXCEPT ![w] = "emit_progress"]
                   ELSE UNCHANGED << file_progress, wpc >>
                /\ UNCHANGED last_progress
  /\ UNCHANGED << renamervars, cfgvars, guivars, fs, batchvars, flagvars, current_active_file, active_processes, localvars, proc, shown >>

\* self.current_file_progress.emit(...), after the mutex has been released
WEmitProgress(w) ==
  /\ wpc[w] = "emit_progress"
  /\ shown' = [shown EXCEPT ![w] =
                 [run |-> phase[w], value |-> file_progress[w],
                  announced |-> current_active_file,
                  prev_run |-> @.run, prev_value |-> @.value]]
  /\ file_progress' = [file_progress EXCEPT ![w] = 0]
  /\ wpc' = [wpc EXCEPT ![w] = "monitor"]
  /\ UNCHANGED << renamervars, cfgvars, guivars, fs, batchvars, flagvars, sharedvars, localvars, proc,
                  last_progress, ended >>

\* streams for the progress stream: with and without a known duration, at and
\* above the size threshold
ProgressCatalog ==
  [codec : {"aac"}, channels : {2}, left : {-20}, right : {-20}, size : OutSizes,
   duration : {0, Duration}, lines : {TRUE}]

InitProgress == InitWith(ProgressCatalog, {MaxFiles}, 1..MaxThreads, {TRUE}, {})

NextProgress ==
  \/ RunScan \/ RunSpawn \/ RunJoin
  \/ \E w \in Workers : Worker(w) \/ WReadLine(w) \/ WEmitProgress(w)

\* a batch whose transcoding runs print their progress
SpecProgress == InitProgress /\ [][NextProgress]_vars

\* the same batch once more: after a first batch in which every file got its
\* ProcessResult, a new AudioExtractor with the same settings is constructed
\* and started over the same input tree; the output tree is what the first
\* batch left
Rerun ==
  /\ run_pc = "finished"
  /\ batch_no = 1
  /\ total_files = Len(media)
  /\ \A f \in 1..total_files : emitted[f] = 1
  /\ batch_no' = 2
  /\ video_files' = << >>
  /\ total_files' = 0
  /\ processed_files' = 0
  /\ is_paused' = FALSE
  /\ is_stopped' = FALSE
  /\ stop_during' = {}
  /\ audio_progress_bar' = 0
  /\ progress_updated' = 0
  /\ current_active_file' = 0
  /\ active_processes' = {}
  /\ file_queue' = << >>
  /\ run_pc' = "idle"
  /\ spawned' = 0
  /\ wpc' = [w \in Workers |-> "unstarted"]
  /\ emitted' = [f \in 1..MaxFiles |-> 0]
  /\ finished' = 0
  /\ mutex' = 0
  /\ UNCHANGED << media, env_faults, skip_existing, max_threads, fs, localvars, proc,
                  progvars, bare_reads, input_tree, same_folder, keep_structure,
                  renamervars >>

\* streams for the repeated batch: copied or channel-fixed, at and above the
\* size threshold
TwiceCatalog ==
  [codec : {"aac", "mp3"}, channels : {2}, left : {-20}, right : {-55, -20},
   size : OutSizes, duration : {Duration}, lines : {FALSE}]

\* skip_existing is set and no step fails
InitTwice == InitWith(TwiceCatalog, {MaxFiles}, {1}, {TRUE}, {})

NextTwice ==
  \/ RunScan \/ RunSpawn \/ RunJoin
  \/ \E w \in Workers : Worker(w)
  \/ Rerun

\* the batch run twice over the same tree
SpecTwice == InitTwice /\ [][NextTwice]_vars

\* ------------------------------------------------------ the main window
\* the slot of the GUI thread that follows current_file_changed (with 0) and
\* current_file_progress (with the emitted percentage): it reads
\* audio_extractor.total_files and audio_extractor.processed_files without
\* taking audio_extractor.mutex and sets the overall progress bar to
\* int(min(100, max(0, processed / total * 100 + progress / 100 / total * 100)))
update_audio_overall_progress_with_current_file ==
  /\ run_pc = "spawn"
  /\ current_active_file # 0
  /\ total_files # 0
  /\ \E current_file_progress \in {0} \cup { shown[w].value : w \in Workers } :
       audio_progress_bar' =
         Min(100, Max(0, (processed_files * 100 + current_file_progress) \div total_files))
  /\ bare_reads' = bare_reads \cup {"processed_files"}
  /\ UNCHANGED << renamervars, cfgvars, progress_updated, progvars, fs, batchvars, flagvars, sharedvars, wpc, localvars, proc >>

NextObserved ==
  \/ Next
  \/ update_audio_overall_progress_with_current_file

\* the batch with the main window's progress bar following it
SpecObserved == Init /\ [][NextObserved]_vars

\* ------------------------------------------- the measurement window
\* streams of every whole duration up to MaxDuration seconds; 0 is what
\* get_audio_stream_info records when ffprobe reports no duration
MaxDuration == 120

WindowCatalog ==
  [codec : {"aac"}, channels : {2}, left : {-20}, right : {-20}, size : {500},
   duration : 0..MaxDuration, lines : {FALSE}]

\* one worker; the measurement may fail in every way
InitWindow == InitWith(WindowCatalog, {MaxFiles}, {1}, {TRUE}, {"detect"})

SpecWindow == InitWindow /\ [][NextPipeline]_vars

\* ------------------------------------------- a batch that can be stopped
\* streams whose output is at and above the size threshold
StopCatalog ==
  [codec : {"aac"}, channels : {2}, left : {-20}, right : {-20}, size : OutSizes,
   duration : {Duration}, lines : {FALSE}]

\* no step fails by itself: a run ends with exit code 0 or is terminated
InitStop == InitWith(StopCatalog, {MaxFiles}, 1..MaxThreads, {TRUE}, {})

\* the batch with pause(), resume() and stop(), the first output oversized
SpecStop == InitStop /\ [][Next]_vars

\* the threads of the process are scheduled fairly: run() and every worker
\* thread keep taking their next step; an ffmpeg process that was terminated,
\* or runs to its end, lets the monitoring loop finish.  No fairness for the
\* GUI: nobody has to press pause, resume or stop.
Fairness ==
  /\ WF_vars(RunScan \/ RunSpawn \/ RunJoin)
  /\ \A w \in Workers : WF_vars(Worker(w))

SpecStopFair == InitStop /\ [][Next]_vars /\ Fairness

\* ------------------------------------ the mutex, one acquisition at a time
\* the positions of _worker_thread and _run_ffmpeg_with_progress that are
\* followed by self.mutex.lock()
LockPositions == {"announce", "register", "communicate", "count"}

\* self.mutex.lock() of worker w returns; the statements up to unlock() are
\* the worker's next step
WLock(w) ==
  /\ wpc[w] \in LockPositions
  /\ mutex = 0
  /\ mutex' = w
  /\ UNCHANGED << renamervars, cfgvars, guivars, progvars, fs, batchvars, flagvars, current_active_file,
                  active_processes, wpc, localvars, proc >>

\* stop() up to the return of self.mutex.lock(): the flag is set, the
\* processes are not yet terminated
StopLock ==
  /\ run_pc # "finished"
  /\ mutex = 0
  /\ is_stopped' = TRUE
  /\ mutex' = GuiThread
  /\ UNCHANGED << renamervars, cfgvars, guivars, progvars, fs, batchvars, is_paused, stop_during,
                  current_active_file, active_processes, wpc, localvars, proc >>

NextMutex ==
  \/ Next
  \/ \E w \in Workers : WLock(w)
  \/ StopLock

\* every thread that can take a step keeps taking steps: a worker that waits
\* for the mutex gets it once it stays free, and a stop() that holds the mutex
\* runs to its unlock()
FairnessMutex ==
  /\ WF_vars(RunScan \/ RunSpawn \/ RunJoin)
  /\ \A w \in Workers : WF_vars(Worker(w) \/ WLock(w))
  /\ WF_vars(mutex = GuiThread /\ Stop)

SpecMutex == InitStop /\ [][NextMutex]_vars /\ FairnessMutex

\* ------------------------------------------- trees with equally named videos
\* the video paths of a tree
InputPaths == [dir : Dirs, stem : 1..MaxFiles, ext : {".mkv", ".mp4"}]

\* sorted(video_files): the root's files before the subfolder's, by stem, then
\* by suffix
PathKey(p) == p.dir * 2 * MaxFiles + (p.stem - 1) * 2 + (IF p.ext = ".mp4" THEN 1 ELSE 0)

Trees ==
  { t \in [1..MaxFiles -> InputPaths] :
      \A f, g \in 1..MaxFiles : f < g => PathKey(t[f]) < PathKey(t[g]) }

\* a full pool over any sorted tree, in each of the output modes
InitPaths ==
  /\ InitOver(BatchCatalog, {MaxFiles}, {MaxThreads}, {TRUE}, {}, Trees, BOOLEAN, BOOLEAN)
  /\ RenamerIdle

SpecPaths == InitPaths /\ [][NextPipeline]_vars

\* ---------------------------------------------------- the subtitle renamer
\* the batches a log may hold
MaxBatches == 2

\* Path.rename(a -> b) in folder fld succeeds: a exists, and b is free or the
\* platform replaces it; otherwise it raises
renames(fld, a, b) == fld[a] # 0 /\ (fld[b] = 0 \/ rename_overwrites)

\* ... and the folder after it
rename(fld, a, b) == [fld EXCEPT ![b] = fld[a], ![a] = 0]

\* a plan of build_plan over the folder: one row, in name order, for each
\* subtitle that is given a target name (tgt[n] = 0: none)
RECURSIVE PlanRows(_, _)
PlanRows(tgt, n) ==
  IF n > MaxSubs + 1 THEN << >>
  ELSE (IF n \in DOMAIN tgt /\ tgt[n] # 0
        THEN << [src |-> n, dst |-> tgt[n]] >> ELSE << >>)
       \o PlanRows(tgt, n + 1)

Plans(fld) ==
  { PlanRows(tgt, 1) : tgt \in [{ n \in Names : fld[n] # 0 } -> {0} \cup Names] }

\* execute_plan, the first loop: a row whose target exists and is another
\* file is a conflict, the others are tasks
Tasks(plan, fld) ==
  SelectSeq(plan, LAMBDA row : ~ (fld[row.dst] # 0 /\ row.dst # row.src))

\* execute_plan, the second loop: rename each task, log each rename that did
\* not raise
RECURSIVE RenameAll(_, _, _)
RenameAll(tasks, fld, batch_log) ==
  IF tasks = << >> THEN [folder |-> fld, batch_log |-> batch_log]
  ELSE LET t == Head(tasks) IN
       IF t.src = t.dst THEN RenameAll(Tail(tasks), fld, batch_log)
       ELSE IF renames(fld, t.src, t.dst)
       THEN RenameAll(Tail(tasks), rename(fld, t.src, t.dst),
                      Append(batch_log, [old |-> t.dst, new |-> t.src]))
       ELSE RenameAll(Tail(tasks), fld, batch_log)

\* undo_last_operation, the loop over the records of the last batch, first
\* record first: rename rec.old back to rec.new if rec.old exists
RECURSIVE UndoAll(_, _)
UndoAll(batch, fld) ==
  IF batch = << >> THEN fld
  ELSE LET rec == Head(batch) IN
       IF fld[rec.old] # 0 /\ renames(fld, rec.old, rec.new)
       THEN UndoAll(Tail(batch), rename(fld, rec.old, rec.new))
       ELSE UndoAll(Tail(batch), fld)

execute_plan ==
  /\ Len(history) < MaxBatches
  /\ \E plan \in Plans(folder) :
       LET tasks == Tasks(plan, folder)
           read == IF log_state = "valid" THEN history ELSE << >>
           before == IF log_state = "valid" THEN snapshots ELSE << >>
           done == RenameAll(tasks, folder, << >>)
       IN  /\ folder' = done.folder
           /\ IF tasks # << >> /\ done.batch_log # << >>
              THEN /\ history' = Append(read, done.batch_log)
                   /\ snapshots' = Append(before, folder)
                   /\ log_state' = "valid"
              ELSE UNCHANGED << history, snapshots, log_state >>
  /\ UNCHANGED << rename_overwrites, cfgvars, guivars, progvars, fs, batchvars, flagvars,
                  sharedvars, wpc, localvars, proc >>

undo_last_operation ==
  /\ IF log_state = "valid" /\ history # << >>
     THEN /\ folder' = UndoAll(history[Len(history)], folder)
          /\ history' = SubSeq(history, 1, Len(history) - 1)
          /\ snapshots' = SubSeq(snapshots, 1, Len(snapshots) - 1)
     ELSE UNCHANGED << folder, history, snapshots >>
  /\ UNCHANGED << log_state, rename_overwrites, cfgvars, guivars, progvars, fs, batchvars,
                  flagvars, sharedvars, wpc, localvars, proc >>

\* the subtitle files under any names; no log, an unreadable one or an empty
\* one; the audio tab idle over an empty tree
InitRenamer ==
  /\ InitOver(BatchCatalog, {0}, {1}, {TRUE}, {}, {DefaultTree}, {FALSE}, {TRUE})
  /\ folder \in { fld \in [Names -> {0} \cup Subs] :
                    \A k \in Subs : Cardinality({ n \in Names : fld[n] = k }) = 1 }
  /\ log_state \in {"missing", "corrupt", "valid"}
  /\ history = << >>
  /\ rename_overwrites \in BOOLEAN
  /\ snapshots = << >>

NextRenamer == execute_plan \/ undo_last_operation

SpecRenamer == InitRenamer /\ [][NextRenamer]_vars

\* ===================================================================== claims
\* worker w is inside extract_audio after the probe and the detection
Analysed(w) == stream_info[w] # NoInfo
\* ... and after make_processing_decision and _get_output_path
Decided(w) == output_file[w] # NoPath
\* ... and the primary ffmpeg command has been built and started
Started(w) == cmd[w] # NoCmd
\* extract_audio has built its ProcessResult, not yet emitted
Returned(w) == wpc[w] = "emit"

\* C1 as claimed: whenever processing_finished has been emitted, every scanned
\* file has exactly one ProcessResult and processed_files = total_files.
C1_AsClaimed ==
  run_pc = "finished" =>
    /\ \A f \in 1..total_files : emitted[f] = 1
    /\ processed_files = total_files

\* C1 amended: that holds when stop() was never requested; in every batch,
\* stopped or not, no file has more than one ProcessResult and
\* processed_files never exceeds total_files.
C1_FinishedCounts ==
  /\ (run_pc = "finished" /\ ~ is_stopped) =>
       /\ \A f \in 1..total_files : emitted[f] = 1
       /\ processed_files = total_files
  /\ \A f \in 1..MaxFiles : emitted[f] <= 1
  /\ processed_files <= total_files

C1_Witness ==
  /\ run_pc = "finished"
  /\ ~ is_stopped
  /\ total_files = 2
  /\ spawned = 2
  /\ processed_files = 2

\* C2 as claimed: every failure in a file's pipeline, a failed detection
\* included, ends in a ProcessResult with success = false and an error message.
C2_AsClaimed ==
  \A w \in Workers :
    (Returned(w) /\ fault[w] \in {"probe", "detect", "decision", "exec"}) =>
      /\ ~ result[w].success
      /\ result[w].error_msg # ""

\* C2 amended: a failed probe, an exception in the decision or the path
\* construction, and a failed execution end in a ProcessResult for that file
\* with success = false and a non-empty error message; a failed detection
\* instead degrades to the sentinel pair classified unknown.  The worker leaves
\* its loop only with the queue empty, and at the end of the batch every file
\* has its ProcessResult.
C2_FailureIsReported ==
  /\ \A w \in Workers :
       Returned(w) =>
         /\ fault[w] \in {"probe", "decision", "exec"} =>
              /\ ~ result[w].success
              /\ result[w].error_msg # ""
              /\ result[w].input_file = video_file[w]
         /\ fault[w] = "detect" =>
              /\ volume_analysis[w].left_volume = -60
              /\ volume_analysis[w].right_volume = -60
              /\ volume_analysis[w].audio_type = "unknown"
  /\ \A w \in Workers : wpc[w] = "exit" => file_queue = << >>
  /\ run_pc = "finished" => \A f \in 1..total_files : emitted[f] = 1

C2_Witness ==
  \E w \in Workers :
    /\ Returned(w)
    /\ fault[w] = "decision"
    /\ video_file[w] = 1
    /\ file_queue # << >>

\* C3 as claimed: right below -50 dB and left at or above -50 dB is classified
\* pseudo_stereo_right, gets the channel fix and is encoded as AAC at 128k.
C3_AsClaimed ==
  \A w \in Workers :
    (Analysed(w) /\ volume_analysis[w].right_volume < -50
                 /\ volume_analysis[w].left_volume >= -50) =>
      /\ volume_analysis[w].audio_type = "pseudo_stereo_right"
      /\ Decided(w) => decision[w].needs_channel_fix
      /\ (Started(w) /\ phase[w] = "primary") =>
           /\ cmd[w].shape = "channel_fix"
           /\ cmd[w].codec = "aac"
           /\ cmd[w].bitrate = "128k"

\* C3 amended: such a file (right -55 dB, left -20 dB) is classified
\* pseudo_stereo_left; its decision has needs_channel_fix = true, and the
\* invocation built for it is the channel-averaging one, encoding AAC at 128k
\* into an .aac file.
C3_PseudoStereoLeftPipeline ==
  \A w \in Workers :
    (Analysed(w) /\ volume_analysis[w].right_volume < -50
                 /\ volume_analysis[w].left_volume >= -50) =>
      /\ volume_analysis[w].audio_type = "pseudo_stereo_left"
      /\ Decided(w) =>
           /\ decision[w].needs_channel_fix
           /\ ~ decision[w].can_copy_directly
           /\ decision[w].target_format = "aac"
           /\ output_file[w].ext = ".aac"
      /\ (Started(w) /\ phase[w] = "primary") =>
           /\ cmd[w].shape = "channel_fix"
           /\ cmd[w].filter = "pan=stereo|c0=0.5*c0+0.5*c1|c1=0.5*c0+0.5*c1"
           /\ cmd[w].codec = "aac"
           /\ cmd[w].bitrate = "128k"
           /\ cmd[w].output = output_file[w]

C3_Witness ==
  \E w \in Workers :
    /\ wpc[w] = "monitor"
    /\ phase[w] = "primary"
    /\ volume_analysis[w].right_volume = -55
    /\ volume_analysis[w].left_volume = -20
    /\ cmd[w].shape = "channel_fix"

\* C4: with exactly one channel below -50 dB and the other at or above it, the
\* type is the pseudo-stereo type named after the channel that has content:
\* pseudo_stereo_right for left < -50 <= right, pseudo_stereo_left for
\* right < -50 <= left.
C4_PseudoStereoNamedAfterContent ==
  \A w \in Workers :
    Analysed(w) =>
      LET l == volume_analysis[w].left_volume
          r == volume_analysis[w].right_volume
          t == volume_analysis[w].audio_type
      IN  /\ (l < -50 /\ r >= -50) => t = "pseudo_stereo_right"
          /\ (r < -50 /\ l >= -50) => t = "pseudo_stereo_left"

C4_Witness ==
  \E w \in Workers :
    /\ Analysed(w)
    /\ volume_analysis[w].left_volume = -90
    /\ volume_analysis[w].right_volume = -50
    /\ volume_analysis[w].audio_type = "pseudo_stereo_right"

\* C5: the pair (-60, -60) is classified unknown, measured or not, and no other
\* pair is: a pair with only one channel at -60 is never unknown.
C5_UnknownIffBothSentinel ==
  \A w \in Workers :
    Analysed(w) =>
      (volume_analysis[w].audio_type = "unknown"
         <=> (volume_analysis[w].left_volume = -60 /\ volume_analysis[w].right_volume = -60))

\* a measured pair of -60 dB on both channels, classified unknown
C5_Witness ==
  \E w \in Workers :
    /\ Analysed(w)
    /\ fault[w] = "none"
    /\ media[video_file[w]].channels = 2
    /\ media[video_file[w]].left = -60
    /\ media[video_file[w]].right = -60
    /\ volume_analysis[w].audio_type = "unknown"

\* C6: both channels at or above -50 dB, the boundary included, is true_stereo.
C6_TrueStereo ==
  \A w \in Workers :
    (Analysed(w) /\ volume_analysis[w].left_volume >= -50
                 /\ volume_analysis[w].right_volume >= -50) =>
      volume_analysis[w].audio_type = "true_stereo"

C6_Witness ==
  \E w \in Workers :
    /\ Analysed(w)
    /\ volume_analysis[w].left_volume = -50
    /\ volume_analysis[w].right_volume = -50
    /\ volume_analysis[w].audio_type = "true_stereo"

\* C7: both channels strictly below -80 dB is no_audio, and a pair with a
\* channel at exactly -80 dB is not.
C7_NoAudio ==
  \A w \in Workers :
    Analysed(w) =>
      LET l == volume_analysis[w].left_volume
          r == volume_analysis[w].right_volume
          t == volume_analysis[w].audio_type
      IN  /\ (l < -80 /\ r < -80) => t = "no_audio"
          /\ (l = -80 \/ r = -80) => t # "no_audio"

C7_Witness ==
  \E w \in Workers :
    /\ Analysed(w)
    /\ volume_analysis[w].left_volume = -90
    /\ volume_analysis[w].right_volume = -90
    /\ volume_analysis[w].audio_type = "no_audio"

\* C8: the type is always one of the six categories, and it is mono exactly
\* when both channels are below -50 dB, not both below -80 dB and not both -60.
C8_TotalAndMono ==
  \A w \in Workers :
    Analysed(w) =>
      LET l == volume_analysis[w].left_volume
          r == volume_analysis[w].right_volume
          t == volume_analysis[w].audio_type
      IN  /\ t \in {"unknown", "no_audio", "pseudo_stereo_right", "pseudo_stereo_left",
                    "true_stereo", "mono"}
          /\ t = "mono" <=> /\ l < -50 /\ r < -50
                            /\ ~ (l < -80 /\ r < -80)
                            /\ ~ (l = -60 /\ r = -60)

C8_Witness ==
  \E w \in Workers :
    /\ Analysed(w)
    /\ volume_analysis[w].left_volume = -90
    /\ volume_analysis[w].right_volume = -80
    /\ volume_analysis[w].audio_type = "mono"

\* the primary ffmpeg run of worker w's file was started and exited with 0
RunSucceeded(w) == Returned(w) /\ Started(w) /\ fault[w] # "exec"

\* C9 as claimed: a file whose decision has can_copy_directly and whose
\* external run succeeds gets a ProcessResult with success, was_copied_directly,
\* the direct-stream-copy reason, and an output path whose extension is the
\* source codec name.
C9_AsClaimed ==
  \A w \in Workers :
    (RunSucceeded(w) /\ decision[w].can_copy_directly) =>
      /\ result[w].success
      /\ result[w].was_copied_directly
      /\ result[w].processing_decision = REASON_COPY
      /\ result[w].output_file.ext = "." \o stream_info[w].codec

\* C10 as claimed: a raw PCM codec, classified true_stereo, with 2 channels, is
\* not copied directly and gets the target codec aac.
C10_AsClaimed ==
  \A w \in Workers :
    (Decided(w) /\ stream_info[w].codec = "pcm_s16le"
                /\ volume_analysis[w].audio_type = "true_stereo"
                /\ stream_info[w].channels = 2) =>
      /\ ~ decision[w].can_copy_directly
      /\ decision[w].target_format = "aac"

\* C11 as claimed: can_copy_directly is true exactly when the type is
\* true_stereo, the channel count is at least 2, the source codec's extension
\* is in the allowlist AUDIO_EXTENSIONS and the codec is not raw PCM.
C11_AsClaimed ==
  \A w \in Workers :
    Decided(w) =>
      (decision[w].can_copy_directly
         <=> /\ volume_analysis[w].audio_type = "true_stereo"
             /\ stream_info[w].channels >= 2
             /\ ("." \o stream_info[w].codec) \in AUDIO_EXTENSIONS
             /\ stream_info[w].codec \notin PcmCodecs)

\* C12 as claimed: a codec outside {aac, mp3, ac3} always gets the target
\* codec aac, and a target other than aac is the source codec, kept only for a
\* direct copy or a supported format without channel fix.
C12_AsClaimed ==
  \A w \in Workers :
    Decided(w) =>
      /\ stream_info[w].codec \notin {"aac", "mp3", "ac3"} =>
           decision[w].target_format = "aac"
      /\ decision[w].target_format # "aac" =>
           /\ decision[w].target_format = stream_info[w].codec
           /\ \/ decision[w].can_copy_directly
              \/ ~ decision[w].needs_channel_fix

\* the reason fragments make_processing_decision can append
ReasonFragments ==
  {REASON_NO_AUDIO, REASON_UNKNOWN, REASON_PCM, REASON_COPY, REASON_STANDARD}
  \cup {REASON_CHANNEL_FIX \o "(" \o t \o ")" : t \in {"pseudo_stereo_left", "pseudo_stereo_right"}}
  \cup {REASON_UNSUPPORTED \o "(" \o c \o ")" : c \in Codecs}

\* C13: the reason string is exactly one fragment, never empty and never two
\* joined, and it is the first that applies in the order no-audio,
\* detection-failed, needs-channel-fix, format-unsupported (as the decision
\* computes format support), PCM, can-copy, standard.
C13_OneReasonByPriority ==
  \A w \in Workers :
    Decided(w) =>
      LET t == volume_analysis[w].audio_type
          c == stream_info[w].codec
          r == decision[w].processing_reason
      IN  /\ r \in ReasonFragments
          /\ r # ""
          /\ t = "no_audio" => r = REASON_NO_AUDIO
          /\ t = "unknown" => r = REASON_UNKNOWN
          /\ t \in {"pseudo_stereo_left", "pseudo_stereo_right"} =>
               r = REASON_CHANNEL_FIX \o "(" \o t \o ")"
          /\ t \in {"mono", "true_stereo"} =>
               IF ~ format_supported(c) THEN r = REASON_UNSUPPORTED \o "(" \o c \o ")"
               ELSE IF c \in PcmCodecs THEN r = REASON_PCM
               ELSE IF decision[w].can_copy_directly THEN r = REASON_COPY
               ELSE r = REASON_STANDARD

\* several reasons apply (detection failed, PCM codec): only the first is kept
C13_Witness ==
  \E w \in Workers :
    /\ Decided(w)
    /\ volume_analysis[w].audio_type = "unknown"
    /\ stream_info[w].codec = "pcm_s16le"
    /\ decision[w].processing_reason = REASON_UNKNOWN


\* C14: when the loudness measurement fails (the subprocess fails or times out,
\* or its report has no RMS line) the volumes are the sentinel pair (-60, -60),
\* the type is unknown, the failure does not end in the exception result, and
\* the decision is can_copy_directly = false, needs_channel_fix = false with the
\* standard-transcode invocation as the one built.
C14_DegradedMeasurement ==
  \A w \in Workers :
    (Analysed(w) /\ fault[w] = "detect") =>
      /\ volume_analysis[w].left_volume = -60
      /\ volume_analysis[w].right_volume = -60
      /\ volume_analysis[w].audio_type = "unknown"
      /\ Decided(w) =>
           /\ ~ decision[w].can_copy_directly
           /\ ~ decision[w].needs_channel_fix
      /\ (Started(w) /\ phase[w] = "primary") => cmd[w].shape = "standard"
      /\ Returned(w) => result[w].error_msg = ""

\* a stream that would have been copied, transcoded after a failed measurement
C14_Witness ==
  \E w \in Workers :
    /\ wpc[w] = "monitor"
    /\ phase[w] = "primary"
    /\ fault[w] = "detect"
    /\ media[video_file[w]].codec = "aac"
    /\ media[video_file[w]].channels = 2
    /\ media[video_file[w]].left = -20
    /\ media[video_file[w]].right = -20
    /\ cmd[w].shape = "standard"

\* the .mp3 sibling of a path
Mp3Sibling(out) == [out EXCEPT !.ext = ".mp3"]

\* C15 as claimed: when the primary run succeeded and nothing else fails, an
\* output larger than 500 MiB is re-encoded to MP3 at 128k and, the re-encode
\* having succeeded, the result's path is the .mp3 sibling, that file exists
\* and the oversized output is gone; an output of at most 500 MiB is returned
\* as it is, without a second invocation.
C15_AsClaimed ==
  \A w \in Workers :
    (RunSucceeded(w) /\ fault[w] \in {"none", "detect"}) =>
      LET out == output_file[w]
      IN  IF media[video_file[w]].size > MAX_FILE_SIZE_MB
          THEN /\ phase[w] = "compress"
               /\ cmd[w].input = out
               /\ cmd[w].codec = "mp3"
               /\ cmd[w].bitrate = "128k"
               /\ result[w].output_file = Mp3Sibling(out)
               /\ fs[Mp3Sibling(out)] # Absent
               /\ fs[out] = Absent
          ELSE /\ phase[w] = "primary"
               /\ result[w].output_file = out
               /\ fs[out] = media[video_file[w]].size

C17_SkipExisting ==
  [][ \A w \in Workers :
        (wpc[w] = "extract" /\ output_file'[w] # NoPath) =>
          LET out == output_file'[w]
              skipped == result'[w].processing_decision = REASON_SKIP
          IN  /\ skipped <=> (skip_existing /\ fs[out] # Absent)
              /\ skipped =>
                   /\ result'[w].success
                   /\ ~ result'[w].was_copied_directly
                   /\ result'[w].output_file = out
                   /\ cmd'[w] = NoCmd
                   /\ proc'[w] = "none"
                   /\ fs' = fs
              /\ (~ skipped /\ fault'[w] # "exec") =>
                   /\ cmd'[w] = BuildCmd(video_file[w], out, decision'[w])
                   /\ proc'[w] = "running"
    ]_vars

C17_Witness ==
  \E w \in Workers :
    /\ Returned(w)
    /\ Decided(w)
    /\ skip_existing
    /\ fs[output_file[w]] # Absent
    /\ result[w].processing_decision = REASON_SKIP
    /\ decision[w].can_copy_directly

\* C18 as claimed: in the second batch over an unchanged input tree, with
\* skip_existing set, no transcoding invocation is built or started and every
\* ProcessResult is a success with the skip reason.
C18_AsClaimed ==
  batch_no = 2 =>
    \A w \in Workers :
      /\ cmd[w] = NoCmd
      /\ proc[w] = "none"
      /\ Returned(w) =>
           /\ result[w].success
           /\ result[w].processing_decision = REASON_SKIP

\* C19 as claimed: every per-file progress value is delivered while the file
\* it belongs to is the announced current file.
C19_AsClaimed ==
  \A w \in Workers :
    shown[w] # NoShown => shown[w].announced = video_file[w]

\* C20 as claimed: from a file's announcement to its ProcessResult, the
\* compression pass included, the emitted percentages lie in 0..100 and never
\* decrease, and a progress-end marker always causes 100 to be emitted.
C20_AsClaimed ==
  \A w \in Workers :
    /\ shown[w] # NoShown =>
         /\ shown[w].value \in 0..100
         /\ shown[w].prev_run # "" => shown[w].prev_value <= shown[w].value
    /\ (ended[w] /\ wpc[w] \in {"monitor", "communicate"}) =>
         /\ shown[w].run = phase[w]
         /\ shown[w].value = 100

\* C20 amended: within one external run (the primary run, or the compression
\* pass, which starts again from 0) every emitted percentage lies in 1..100 and
\* the emitted values never decrease; a value computed from an elapsed-time
\* line is emitted only if it exceeds every value computed before in that run
\* and the file is the current active file; a progress-end marker makes 100 the
\* value emitted if the file is the current active file, which it always is
\* in a batch with a single worker.
C20_MonotoneWithinRun ==
  \A w \in Workers :
    /\ shown[w] # NoShown =>
         /\ shown[w].value \in 1..100
         /\ shown[w].prev_run = shown[w].run => shown[w].prev_value <= shown[w].value
    /\ wpc[w] = "emit_progress" =>
         IF ended[w] THEN file_progress[w] = 100
         ELSE /\ file_progress[w] = last_progress[w]
              /\ shown[w].run = phase[w] => shown[w].value < file_progress[w]
    /\ (ended[w] /\ wpc[w] \in {"monitor", "communicate"} /\ spawned = 1) =>
         /\ shown[w].run = phase[w]
         /\ shown[w].value = 100
         /\ shown[w].announced = video_file[w]

\* the primary run went up to 100, the compression pass emits 50
C20_Witness ==
  \E w \in Workers :
    /\ shown[w].prev_run = "primary"
    /\ shown[w].prev_value = 100
    /\ shown[w].run = "compress"
    /\ shown[w].value = 50

\* C21 as claimed: if stop() comes while a file's transcoding process is
\* monitored, the file's ProcessResult has success = false, the generic
\* execution-failure message and the decision's reason.
C21_AsClaimed ==
  \A w \in Workers :
    (Returned(w) /\ video_file[w] \in stop_during) =>
      /\ ~ result[w].success
      /\ result[w].error_msg = ERR_EXEC
      /\ result[w].processing_decision = decision[w].processing_reason

\* C21: if stop() comes while a file's transcoding process is monitored, the
\* loop is left with the process ended; when it was the primary run and it
\* had not already ended with exit code 0, the ProcessResult has
\* success = false, the generic execution-failure message and the decision's
\* reason; when the primary run had ended with exit code 0, or the stopped
\* run is the MP3 re-encode of an oversized output, the ProcessResult has
\* success = true.
C21_StopWhileMonitored ==
  [][ \A w \in Workers :
        (wpc[w] = "communicate" /\ wpc'[w] = "emit" /\ video_file[w] \in stop_during) =>
          /\ proc[w] # "running"
          /\ IF phase[w] = "primary" /\ proc[w] # "exit0"
             THEN /\ ~ result'[w].success
                  /\ result'[w].error_msg = ERR_EXEC
                  /\ result'[w].processing_decision = decision[w].processing_reason
                  /\ result'[w].output_file = output_file[w]
             ELSE /\ result'[w].success
                  /\ result'[w].error_msg = ""
    ]_vars

C21_Witness ==
  \E w \in Workers :
    /\ Returned(w)
    /\ video_file[w] \in stop_during
    /\ phase[w] = "primary"
    /\ ~ result[w].success
    /\ result[w].error_msg = ERR_EXEC

\* C22: under fair scheduling, once stop() has been called every transcoding
\* process that runs then or is started later ends (registered or not), every
\* worker thread leaves its loop, those blocked in the pause loop included,
\* and processing_finished is emitted.
C22_StopTerminates ==
  is_stopped ~>
    /\ run_pc = "finished"
    /\ finished = 1
    /\ \A w \in Workers : wpc[w] \in {"unstarted", "exit"} /\ proc[w] # "running"

\* stop() came while one worker sat in the pause loop and another worker's
\* process, started but not yet registered, kept running
C22_Witness ==
  /\ is_stopped
  /\ is_paused
  /\ \E w, v \in Workers :
       /\ wpc[w] = "pause"
       /\ wpc[v] = "register"
       /\ proc[v] = "running"
       /\ v \notin active_processes

C24_AsClaimed ==
  [][ (is_paused /\ ~ is_stopped) =>
        \A w \in Workers :
          /\ ~ (wpc[w] = "announce" /\ wpc'[w] = "extract")
          /\ ~ (wpc[w] = "extract" /\ wpc'[w] # "extract")
    ]_vars

\* C24: a worker that makes the pause check while is_paused is set and stop()
\* has not been called stays there and keeps the file it dequeued; when it
\* leaves the check in a batch that is not stopped, it goes on to announce
\* and process exactly that file.  The check is made once per file: a worker
\* that has passed it announces its file and starts the pipeline whatever
\* is_paused is by then.
C24_PauseBlocksAtCheck ==
  [][ \A w \in Workers :
        /\ (wpc[w] = "pause" /\ is_paused /\ ~ is_stopped) =>
             (wpc'[w] = "pause" /\ video_file'[w] = video_file[w])
        /\ (wpc[w] = "pause" /\ wpc'[w] # "pause" /\ ~ is_stopped) =>
             (wpc'[w] = "announce" /\ video_file'[w] = video_file[w]
                /\ video_file[w] # 0)
        /\ (wpc[w] = "announce" /\ wpc'[w] # "announce") =>
             (wpc'[w] = "extract" /\ current_active_file' = video_file[w]
                /\ video_file'[w] = video_file[w])
        /\ (wpc[w] = "extract" /\ wpc'[w] # "extract") =>
             stream_info'[w].codec \in {media[video_file[w]].codec, NoInfo.codec}
    ]_vars

\* one worker waits at the pause check with its file while another, which
\* passed the check before pause() was called, is about to announce its own
C24_Witness ==
  /\ is_paused
  /\ ~ is_stopped
  /\ \E w, v \in Workers :
       /\ wpc[w] = "pause"
       /\ video_file[w] # 0
       /\ wpc[v] = "announce"

\* the state of the batch as the flags and the position of run() give it;
\* scanning is the step RunScan itself
BatchState ==
  IF is_stopped THEN "stopped"
  ELSE IF run_pc = "finished" THEN "finished"
  ELSE IF run_pc = "idle" THEN "idle"
  ELSE IF is_paused THEN "paused"
  ELSE "running"

BatchTransitions ==
  { << "idle", "running" >>, << "idle", "paused" >>, << "idle", "finished" >>,
    << "idle", "stopped" >>,
    << "running", "paused" >>, << "paused", "running" >>,
    << "running", "stopped" >>, << "running", "finished" >>,
    << "paused", "stopped" >>, << "paused", "finished" >> }

\* C25: the batch only moves forward along idle -> scanning -> running <->
\* paused -> (stopped | finished), the scan ending in running, in paused (the
\* flag was set meanwhile), in finished (nothing found) or in stopped;
\* stopped and finished are left no more; once stop() has been called no
\* worker takes another file from the queue or passes from the pause check to
\* its file, whatever pause() and resume() do afterwards; and no worker
\* exists before the scan has filled the queue.
C25_BatchStateMachine ==
  /\ [][ /\ BatchState' # BatchState => << BatchState, BatchState' >> \in BatchTransitions
         /\ is_stopped =>
              /\ is_stopped'
              /\ Len(file_queue') >= Len(file_queue)
              /\ \A w \in Workers :
                   /\ ~ (wpc[w] = "loop" /\ wpc'[w] = "pause")
                   /\ ~ (wpc[w] = "pause" /\ wpc'[w] = "announce") ]_vars
  /\ [](\A w \in Workers :
          wpc[w] # "unstarted" =>
            (run_pc \in {"spawn", "finished"} /\ total_files = Len(media)
               /\ total_files > 0))

\* after stop() the pause flag has been cleared again while a worker still
\* holds a dequeued file at the pause check and files wait in the queue
C25_Witness ==
  /\ is_stopped
  /\ ~ is_paused
  /\ file_queue # << >>
  /\ \E w \in Workers : wpc[w] = "pause" /\ video_file[w] # 0

\* the astats run of worker w's file has been built
Measured(w) == Analysed(w) /\ astats_cmd[w] # NoAstats

C28_AsClaimed ==
  [][ is_stopped =>
        \A w \in Workers :
          /\ ~ (wpc[w] = "extract" /\ wpc'[w] # "extract")
          /\ ~ (proc[w] # "running" /\ proc'[w] = "running")
    ]_vars

\* C29 as claimed: every read or write of current_active_file, of
\* processed_files and of active_processes, by the workers, by stop() and by
\* the observers, is made while holding the mutex.
C29_AsClaimed == bare_reads = {}

\* C30: the primary invocation of a file has one of the three shapes, the
\* copy when can_copy_directly, else the channel fix when needs_channel_fix,
\* else the standard transcode; the channel fix has the equal-average pan
\* filter, codec aac at 128k and an output path ending in .aac; the standard
\* transcode encodes to the target codec and carries 128k exactly when that
\* codec is aac; the copy has neither filter nor bitrate.
C30_InvocationShapes ==
  \A w \in Workers :
    (Started(w) /\ phase[w] = "primary") =>
      LET c == cmd[w]
          d == decision[w]
      IN  /\ c.shape \in {"copy", "channel_fix", "standard"}
          /\ c.shape = "copy" <=> d.can_copy_directly
          /\ c.shape = "channel_fix" <=> (~ d.can_copy_directly /\ d.needs_channel_fix)
          /\ c.shape = "copy" =>
               (c.codec = "copy" /\ c.filter = "" /\ c.bitrate = "")
          /\ c.shape = "channel_fix" =>
               /\ c.filter = PAN_FILTER
               /\ c.codec = "aac"
               /\ c.bitrate = "128k"
               /\ c.output.ext = ".aac"
          /\ c.shape = "standard" =>
               /\ c.codec = d.target_format
               /\ c.filter = ""
               /\ c.bitrate = "128k" <=> d.target_format = "aac"
               /\ c.bitrate \in {"128k", ""}
          /\ c.input = VideoPath(video_file[w])
          /\ c.output = output_file[w]

\* the channel fix of a stream that is not aac is running, written to .aac
C30_Witness ==
  \E w \in Workers :
    /\ Started(w)
    /\ phase[w] = "primary"
    /\ cmd[w].shape = "channel_fix"
    /\ cmd[w].output.ext = ".aac"
    /\ stream_info[w].codec # "aac"

\* C31: needs_channel_fix is true exactly for the audio types
\* pseudo_stereo_left and pseudo_stereo_right; for unknown, no_audio, mono
\* and true_stereo it is false.
C31_NeedsChannelFix ==
  \A w \in Workers :
    Decided(w) =>
      LET t == volume_analysis[w].audio_type
      IN  /\ decision[w].needs_channel_fix <=>
               (t = "pseudo_stereo_left" \/ t = "pseudo_stereo_right")
          /\ t \in {"unknown", "no_audio", "mono", "true_stereo"} =>
               ~ decision[w].needs_channel_fix

\* a decision over a stream whose right channel alone is silent
C31_Witness ==
  \E w \in Workers :
    /\ Decided(w)
    /\ volume_analysis[w].audio_type = "pseudo_stereo_left"
    /\ volume_analysis[w].right_volume = -90
    /\ decision[w].needs_channel_fix

\* the workers that hold a dequeued file
Processing == { w \in Workers : video_file[w] # 0 }

\* C32: the number of worker threads started is min(max_threads,
\* total_files): the started workers are exactly the first that many, never
\* more files than that are held by workers at once, and a batch with at
\* least one file has at least one worker once the threads are started.
C32_PoolSize ==
  /\ spawned <= max_threads
  /\ spawned <= total_files
  /\ spawned > 0 => (spawned = max_threads \/ spawned = total_files)
  /\ { w \in Workers : wpc[w] # "unstarted" } = 1..spawned
  /\ Processing \subseteq 1..spawned
  /\ Cardinality(Processing) <= spawned
  /\ (run_pc = "finished" /\ total_files >= 1) => spawned >= 1

\* two threads configured, one file scanned: one worker, at work
C32_Witness ==
  /\ max_threads = 2
  /\ total_files = 1
  /\ spawned = 1
  /\ Processing = {1}
  /\ wpc[2] = "unstarted"

\* C33: in every decision can_copy_directly and needs_channel_fix are not
\* both true; the reason is the direct-copy reason exactly when
\* can_copy_directly is true, and it is the channel-merge reason (with the
\* audio type in brackets) exactly when needs_channel_fix is true.
C33_FlagsAgreeWithReason ==
  \A w \in Workers :
    Decided(w) =>
      LET d == decision[w]
          merge == { REASON_CHANNEL_FIX \o "(" \o t \o ")" :
                       t \in {"pseudo_stereo_left", "pseudo_stereo_right"} }
      IN  /\ ~ (d.can_copy_directly /\ d.needs_channel_fix)
          /\ d.processing_reason = REASON_COPY <=> d.can_copy_directly
          /\ d.processing_reason \in merge <=> d.needs_channel_fix
          /\ d.needs_channel_fix =>
               d.processing_reason =
                 REASON_CHANNEL_FIX \o "(" \o volume_analysis[w].audio_type \o ")"

\* a PCM stream with a silent left channel: the channel fix, named so
C33_Witness ==
  \E w \in Workers :
    /\ Decided(w)
    /\ stream_info[w].codec = "pcm_s16le"
    /\ decision[w].needs_channel_fix
    /\ ~ decision[w].can_copy_directly
    /\ decision[w].processing_reason = REASON_CHANNEL_FIX \o "(pseudo_stereo_right)"

\* the number of ProcessResults emitted so far
EmittedCount == Cardinality({ f \in 1..MaxFiles : emitted[f] >= 1 })

\* C34: every scanned file is dequeued by at most one worker: the queue
\* holds no file twice, no two workers hold the same file, a file held by a
\* worker is no longer queued, and no file gets a second ProcessResult or is
\* taken up again after its result; processed_files <= number of
\* ProcessResults emitted <= total_files.
C34_EachFileOnce ==
  /\ \A i, j \in 1..Len(file_queue) : file_queue[i] = file_queue[j] => i = j
  /\ \A w, v \in Workers :
       (video_file[w] # 0 /\ video_file[w] = video_file[v]) => w = v
  /\ \A w \in Workers : \A i \in 1..Len(file_queue) :
       video_file[w] # file_queue[i]
  /\ \A f \in 1..MaxFiles :
       /\ emitted[f] <= 1
       /\ emitted[f] = 1 =>
            /\ \A i \in 1..Len(file_queue) : file_queue[i] # f
            /\ \A w \in Workers : video_file[w] = f => wpc[w] \in {"count", "progress"}
       /\ current_active_file = f => (emitted[f] = 1 \/ \E w \in Workers : video_file[w] = f)
  /\ processed_files <= EmittedCount
  /\ EmittedCount <= total_files

\* two workers at work on the two files, one result emitted and not yet
\* counted
C34_Witness ==
  /\ \E w, v \in Workers :
       /\ video_file[w] = 1 /\ video_file[v] = 2
       /\ wpc[w] = "count"
       /\ wpc[v] = "monitor"
  /\ EmittedCount = 1
  /\ processed_files = 0

\* C35 as claimed: the values emitted on progress_updated never decrease in
\* emission order, and when a batch that was not stopped has finished the
\* last value emitted is 100.
C35_AsClaimed ==
  /\ [][progress_updated' >= progress_updated]_vars
  /\ []((run_pc = "finished" /\ ~ is_stopped /\ total_files > 0
           /\ processed_files = total_files) => progress_updated = 100)


C39_AsClaimed ==
  \A w \in Workers :
    /\ (Started(w) /\ cmd[w].shape = "channel_fix") => stream_info[w].channels >= 2
    /\ (Decided(w) /\ stream_info[w].channels = 1) => ~ decision[w].needs_channel_fix


\* C38 as claimed: when the primary output exists at the call of
\* _check_and_compress_if_needed, the path in the result names a file that
\* exists at the return, whatever the outcome of the re-encode and whatever
\* the extension of the output -- .mp3 included.
C38_AsClaimed ==
  [][ \A w \in Workers :
        ( /\ wpc[w] = "communicate"
          /\ wpc'[w] = "emit"
          /\ result'[w].success
          /\ (phase[w] = "compress" \/ fs[output_file[w]] # Absent) )
        => fs'[result'[w].output_file] # Absent ]_vars


\* C37 as claimed: two distinct input files of a batch never get the same
\* output path, so two workers never run transcoding processes that write the
\* same output file, whatever the output mode.
C37_AsClaimed ==
  \A w, v \in Workers :
    w # v =>
      /\ (Decided(w) /\ Decided(v)) => output_file[w] # output_file[v]
      /\ (proc[w] = "running" /\ proc[v] = "running") => cmd[w].output # cmd[v].output


\* C40 as claimed: an undo over a log that holds a batch puts every file of
\* the folder back under the name it had before the last batch and takes
\* exactly that batch off the log, so that repeated undos go back batch by
\* batch, last in first out; an undo over a missing, unreadable or empty log
\* changes no file.
C40_AsClaimed ==
  [][ undo_last_operation =>
        IF log_state = "valid" /\ history # << >>
        THEN /\ folder' = snapshots[Len(snapshots)]
             /\ history' = SubSeq(history, 1, Len(history) - 1)
        ELSE folder' = folder ]_vars

=============================================================================
